---- MODULE Spec2Model ----
(***************************************************************************)
(* aeon2yw: synchronisation of an Aeon Timeline 2 project (.aeonzip) and a *)
(* yWriter 7 project (.yw7).                                               *)
(*                                                                         *)
(* The model follows the single-file script of the repository:            *)
(*   YwCnv.convert / YwCnvUi / Aeon2Converter.run   (the pipeline)         *)
(*   JsonTimeline2.read / merge / write             (timeline adapter)     *)
(*   Yw7File.read / write, Yw7Target.merge          (novel adapter)        *)
(*                                                                         *)
(* Representation of Python values                                         *)
(*   None            <<>>                                                  *)
(*   a value v that may be None     <<v>>   (Some(v))                      *)
(*   str (free text) a sequence of tokens, '' is <<>>; titles and names    *)
(*                   are TLA+ strings                                      *)
(*   list            a sequence                                            *)
(*   dict            a sequence of records with an id field, in insertion  *)
(*                   order (CPython dicts iterate in insertion order)      *)
(*   ids             the decimal strings '1', '2', ... are the numbers     *)
(*                   1, 2, ...                                             *)
(*   timestamps      seconds since datetime.min, kept as a pair            *)
(*                   [d |-> whole days, s |-> second of the day]           *)
(*   dates           an ISO date is the day number d since 0001-01-01, an  *)
(*                   ISO time the second of the day                        *)
(***************************************************************************)
EXTENDS Integers, Sequences, FiniteSets, TLC

VARIABLES
    aeonFile,   \* the document of the .aeonzip file: what the path holds while
                \* aeonPath = "file", else what it held before
    aeonPath,   \* what is at the .aeonzip path: "file" | "absent" | "partial"
    aeonBak,    \* the '<path>.aeonzip.bak' file, None if there is none
    ywFile,     \* the document of the .yw7 file (the XML tree as stored): what
                \* the path holds while ywPath = "file", else what it held before
    ywPath,     \* what is at the .yw7 path: "file" | "absent" | "partial" |
                \* "raw" (the tree as ElementTree writes it; while write is
                \* under way the tree of the target, afterwards ywFile)
    ywBak,      \* the '<path>.yw7.bak' file, None if there is none
    saving,     \* how far target.write has got with the file:
                \* "no" | "backedUp" | "opened" | "written"
    fnArg,      \* the argument of a function of the module called on its own,
                \* None while the converter runs
    fnRet,      \* what that function has returned, None before it returns
    ywLock,     \* TRUE iff '<path>.yw7.lock' exists
    dir,        \* direction of the current run: "a2y" | "y2a" | "none"
    scenes_only, \* kwargs['scenes_only'], from the configuration file
    pc,         \* position of YwCnv.convert
    source,     \* the source object of the current run
    target,     \* the target object of the current run
    message,    \* the message convert returned (or is about to return)
    calls,      \* methods of source and target called by convert, in order
    afterRead,  \* target graph as it was right after target.read (inside merge)
    newFile,    \* YwCnvUi.newFile
    runs,       \* number of runs started so far
    edits,      \* number of changes the user made to the files so far
    hist        \* what the finished runs left behind, oldest first

vars == <<aeonFile, aeonPath, aeonBak, ywFile, ywPath, ywBak, saving, ywLock,
          dir, scenes_only, pc, source, target, message, calls, afterRead,
          newFile, runs, edits, hist, fnArg, fnRet>>

\* the paths and backup files, and the position of write
disk == <<aeonPath, aeonBak, ywPath, ywBak, saving>>

----------------------------------------------------------------------------
(* Python values *)

None == <<>>
Some(v) == <<v>>
Val(o) == o[1]
\* bool(o) for a value that may be None, '' or []
Truthy(o) == o # None /\ Val(o) # <<>>
\* bool(o) for a flag that may be None
IsTrue(o) == o # None /\ Val(o) = TRUE

Max(S) == CHOOSE m \in S : \A x \in S : x <= m

\* x in lst
InList(x, lst) == \E i \in DOMAIN lst : lst[i] = x

\* list(set(a + b)): the distinct members of a and b (order is unspecified in
\* Python; it is only ever used for membership tests)
RECURSIVE Dedup(_)
Dedup(s) ==
    IF s = <<>> THEN <<>>
    ELSE LET r == Dedup(Tail(s)) IN IF InList(Head(s), r) THEN r ELSE <<Head(s)>> \o r

\* sub in text, both sequences of tokens
IsSubstring(sub, text) ==
    \E i \in 0..(Len(text) - Len(sub)) :
        \A j \in 1..Len(sub) : text[i + j] = sub[j]

(* dicts: sequences of records with an id field *)
HasKey(d, k) == \E i \in DOMAIN d : d[i].id = k
Get(d, k) == d[CHOOSE i \in DOMAIN d : d[i].id = k]
Put(d, v) ==
    IF HasKey(d, v.id)
    THEN [i \in DOMAIN d |-> IF d[i].id = v.id THEN v ELSE d[i]]
    ELSE Append(d, v)
Keys(d) == [i \in DOMAIN d |-> d[i].id]

(* messages: a message is an error iff it starts with ERROR = '!' *)
Msg(err, text, arg) == [error |-> err, text |-> text, arg |-> arg]
Ok(text) == Msg(FALSE, text, "")
Err(text, arg) == Msg(TRUE, text, arg)
NoMessage == Msg(FALSE, "", "")

----------------------------------------------------------------------------
(* Timestamps and dates *)

Ts(d, s) == [d |-> d, s |-> s]
TsLess(a, b) == a.d < b.d \/ (a.d = b.d /\ a.s < b.s)
TsLeq(a, b) == ~TsLess(b, a)
TsZero == Ts(0, 0)
\* t + 1 second
TsSucc(t) == IF t.s + 1 = 86400 THEN Ts(t.d + 1, 0) ELSE Ts(t.d, t.s + 1)


(* Proleptic Gregorian calendar of Python's datetime; day numbers count from
   0001-01-01 = 0 *)
IsLeap(y) == (y % 4 = 0 /\ y % 100 # 0) \/ y % 400 = 0
DaysInMonth(y, m) ==
    IF m = 2 THEN (IF IsLeap(y) THEN 29 ELSE 28)
    ELSE IF m \in {4, 6, 9, 11} THEN 30 ELSE 31
DaysBeforeYear(y) ==
    (y - 1) * 365 + (y - 1) \div 4 - (y - 1) \div 100 + (y - 1) \div 400
DaysBeforeMonth(y, m) ==
    <<0, 31, 59, 90, 120, 151, 181, 212, 243, 273, 304, 334>>[m]
        + (IF m > 2 /\ IsLeap(y) THEN 1 ELSE 0)
Ordinal(y, m, d) == DaysBeforeYear(y) + DaysBeforeMonth(y, m) + d - 1
YearOf(n) ==
    CHOOSE y \in (n \div 366 + 1)..(n \div 365 + 1) :
        DaysBeforeYear(y) <= n /\ n < DaysBeforeYear(y + 1)
MonthOf(n) ==
    LET y == YearOf(n) IN
    CHOOSE m \in 1..12 :
        /\ Ordinal(y, m, 1) <= n
        /\ n < Ordinal(y, m, 1) + DaysInMonth(y, m)
DayOf(n) == n - Ordinal(YearOf(n), MonthOf(n), 1) + 1
\* datetime(y, m, d) raises ValueError unless this holds
ValidDate(y, m, d) ==
    y \in 1..9999 /\ m \in 1..12 /\ d >= 1 /\ d <= DaysInMonth(y, m)

\* JsonTimeline2.DATE_LIMIT = (datetime(100, 1, 1) - datetime.min).total_seconds()
DateLimitDays == Ordinal(100, 1, 1)
DATE_LIMIT == Ts(DateLimitDays, 0)

----------------------------------------------------------------------------
(* Scene, Chapter, Novel: the instance variables the synchronisation uses *)

\* Scene.__init__
NewScene(id) ==
    [id |-> id, title |-> "", desc |-> None, sceneContent |-> None,
     isUnused |-> None, isNotesScene |-> None, isTodoScene |-> None,
     status |-> None, sceneNotes |-> None, tags |-> None,
     characters |-> None, locations |-> None, items |-> None,
     date |-> None, time |-> None,
     minute |-> None, hour |-> None, day |-> None,
     lastsMinutes |-> None, lastsHours |-> None, lastsDays |-> None,
     arcs |-> None]

\* Chapter.__init__
NewChapter(id) ==
    [id |-> id, title |-> "", chType |-> None, isUnused |-> None,
     isTrash |-> None, srtScenes |-> <<>>]

\* WorldElement / Character instance
NewElement(id, title) == [id |-> id, title |-> title]

----------------------------------------------------------------------------
(* JsonTimeline2.read *)

\* guid of entity/role/type names of the template are resolved names here
TypeArc == "Arc"
TypeCharacter == "Character"
TypeLocation == "Location"
TypeItem == "Item"
RoleArc == "Arc"
RoleStoryline == "Storyline"
RoleCharacter == "Participant"
RoleLocation == "Location"
RoleItem == "Item"
\* kwargs['narrative_arc']
EntityNarrative == "Narrative"

\* the key a dict of ids by guid holds for guid g (the last one assigned)
IdOfGuid(byGuid, g) ==
    byGuid[Max({i \in DOMAIN byGuid : byGuid[i].guid = g})].id
HasGuid(byGuid, g) == \E i \in DOMAIN byGuid : byGuid[i].guid = g

\* the entities of one type, numbered in document order: [id, title, guid]
RECURSIVE EntitiesOfType(_, _, _)
EntitiesOfType(entities, type, n) ==
    IF entities = <<>> THEN <<>>
    ELSE IF Head(entities).entityType = type
         THEN <<[id |-> n + 1, title |-> Head(entities).name,
                 guid |-> Head(entities).guid]>>
              \o EntitiesOfType(Tail(entities), type, n + 1)
         ELSE EntitiesOfType(Tail(entities), type, n)

\* "Get arcs, characters, locations, and items."
\* _arcGuidsByName: the arcs other than the narrative arc, [id |-> name, guid]
RECURSIVE ArcGuidsByName(_, _)
ArcGuidsByName(entities, acc) ==
    IF entities = <<>> THEN acc
    ELSE LET e == Head(entities) IN
         IF e.entityType = TypeArc /\ e.name # EntityNarrative
         THEN ArcGuidsByName(Tail(entities),
                             Put(acc, [id |-> e.name, guid |-> Some(e.guid)]))
         ELSE ArcGuidsByName(Tail(entities), acc)

\* _entityNarrativeGuid: guid of the last Arc entity named like the narrative arc
NarrativeGuid(entities) ==
    LET S == {i \in DOMAIN entities :
                entities[i].entityType = TypeArc /\ entities[i].name = EntityNarrative}
    IN IF S = {} THEN None ELSE Some(entities[Max(S)].guid)

ArcCount(entities) ==
    Cardinality({i \in DOMAIN entities : entities[i].entityType = TypeArc})

\* "Calculate duration": [ok, d, h, m]; ok is FALSE when datetime() raises
ReadDuration(start, span) ==
    LET has(k) == k \in DOMAIN span
        y == YearOf(start.d)
        mo == MonthOf(start.d)
        dd == DayOf(start.d)
        endYear0 == y + (IF has("years") THEN span.years ELSE 0)
        endMonth0 == mo + (IF has("months") THEN span.months ELSE 0)
        k == IF endMonth0 > 12 THEN (endMonth0 - 1) \div 12 ELSE 0
        endMonth == endMonth0 - 12 * k
        endYear == endYear0 + k
        ym == has("years") \/ has("months")
        ok == ~ym \/ ValidDate(endYear, endMonth, dd)
        days0 == IF ym /\ ok THEN Ordinal(endYear, endMonth, dd) - start.d ELSE 0
        days1 == days0 + (IF has("weeks") THEN span.weeks * 7 ELSE 0)
        days2 == days1 + (IF has("days") THEN span.days ELSE 0)
        days3 == days2 + (IF has("hours") THEN span.hours \div 24 ELSE 0)
        hours1 == IF has("hours") THEN span.hours % 24 ELSE 0
        hours2 == hours1 + (IF has("minutes") THEN span.minutes \div 60 ELSE 0)
        min1 == IF has("minutes") THEN span.minutes % 60 ELSE 0
        min2 == min1 + (IF has("seconds") THEN span.seconds \div 60 ELSE 0)
        hours3 == hours2 + min2 \div 60
    IN [ok |-> ok,
        lastsDays |-> days3 + hours3 \div 24,
        lastsHours |-> hours3 % 24,
        lastsMinutes |-> min2 % 60]

\* the scene with start date/time t and the duration dur
WithDateTime(scene, t, dur) ==
    [scene EXCEPT !.date = Some(t.d), !.time = Some(t.s),
                  !.lastsDays = Some(dur.lastsDays),
                  !.lastsHours = Some(dur.lastsHours),
                  !.lastsMinutes = Some(dur.lastsMinutes)]

\* a read that takes the dates after the limit only
ReadDateTimeAbove(scene, rv) ==
    IF rv = None \/ TsLeq(Val(rv).timestamp, DATE_LIMIT) THEN scene
    ELSE WithDateTime(scene, Val(rv).timestamp,
                      ReadDuration(Val(rv).timestamp, Val(rv).span))

\* "Get date/time/duration": the scene with the date fields of the event's
\* range value rv (None when the event has no value of the date property)
ReadDateTime(scene, rv) ==
    IF rv = None \/ TsLess(Val(rv).timestamp, DATE_LIMIT) THEN scene
    ELSE WithDateTime(scene, Val(rv).timestamp,
                      ReadDuration(Val(rv).timestamp, Val(rv).span))

\* datetime(endYear, endMonth, sceneStart.day) raises ValueError
ReadDateRaises(rv) ==
    /\ rv # None
    /\ TsLeq(DATE_LIMIT, Val(rv).timestamp)
    /\ ~ReadDuration(Val(rv).timestamp, Val(rv).span).ok

\* timestamp used for sorting: 0 unless the event has a date value
EventTimestamp(evt) == IF evt.rangeValue = None THEN TsZero ELSE Val(evt.rangeValue).timestamp

\* the event has the Arc-role relationship to the narrative arc
IsNarrativeEvent(evt, narrativeGuid) ==
    /\ narrativeGuid # None
    /\ \E i \in DOMAIN evt.relationships :
          /\ evt.relationships[i].role = RoleArc
          /\ evt.relationships[i].entity = Val(narrativeGuid)

\* ids of the entities the relationships of one role refer to; None if there
\* is no such relationship
RECURSIVE RelIds(_, _, _)
RelIds(rels, role, byGuid) ==
    IF rels = <<>> THEN None
    ELSE LET rest == RelIds(Tail(rels), role, byGuid) IN
         IF Head(rels).role = role
         THEN Some(<<IdOfGuid(byGuid, Head(rels).entity)>>
                   \o (IF rest = None THEN <<>> ELSE Val(rest)))
         ELSE rest

\* crIdsByGuid[evtRel['entity']] raises KeyError
RelRaises(rels, role, byGuid) ==
    \E i \in DOMAIN rels : rels[i].role = role /\ ~HasGuid(byGuid, rels[i].entity)

\* "Collect scene arcs": names of the arcs the event is a Storyline of
RECURSIVE SceneArcs(_, _)
SceneArcs(rels, arcGuids) ==
    IF rels = <<>> THEN <<>>
    ELSE LET r == Head(rels)
             names == SelectSeq(Keys(arcGuids),
                        LAMBDA n : Get(arcGuids, n).guid = Some(r.entity))
         IN (IF r.role = RoleStoryline THEN names ELSE <<>>)
            \o SceneArcs(Tail(rels), arcGuids)

\* the scene built from event evt, numbered scId
ReadScene(evt, scId, ctx) ==
    LET s0 == [NewScene(scId) EXCEPT
                  !.title = evt.title,
                  !.status = Some(1),
                  !.desc = IF Truthy(evt.desc) THEN evt.desc ELSE None,
                  !.sceneNotes = IF Truthy(evt.notes) THEN evt.notes ELSE None,
                  !.tags = IF evt.tags # <<>> THEN Some(evt.tags) ELSE None]
        s1 == ReadDateTime(s0, evt.rangeValue)
        narr == IsNarrativeEvent(evt, ctx.narrativeGuid)
    IN [s1 EXCEPT
          !.isNotesScene = Some(~narr),
          !.isUnused = Some(~narr),
          !.characters = RelIds(evt.relationships, RoleCharacter, ctx.characters),
          !.locations = RelIds(evt.relationships, RoleLocation, ctx.locations),
          !.items = RelIds(evt.relationships, RoleItem, ctx.items),
          !.arcs = Some(SceneArcs(evt.relationships, ctx.arcGuids))]

ReadSceneRaises(evt, ctx) ==
    \/ ReadDateRaises(evt.rangeValue)
    \/ RelRaises(evt.relationships, RoleCharacter, ctx.characters)
    \/ RelRaises(evt.relationships, RoleLocation, ctx.locations)
    \/ RelRaises(evt.relationships, RoleItem, ctx.items)

\* "Add description and scene notes, if missing": the event as read leaves it
NormalizedEvent(evt) ==
    [evt EXCEPT !.desc = IF evt.desc = None THEN Some(<<>>) ELSE evt.desc,
                !.notes = IF evt.notes = None THEN Some(<<>>) ELSE evt.notes]

\* JsonTimeline2.DEFAULT_TIMESTAMP = (datetime.today() - datetime.min)
\* .total_seconds(), for a program started on 2026-11-02 at noon
DEFAULT_TIMESTAMP == Ts(Ordinal(2026, 11, 2), 43200)

\* everything the template must declare for the synchronisation
FullTemplate ==
    {"typeArc", "roleArc", "roleStoryline", "typeCharacter", "roleCharacter",
     "typeLocation", "roleLocation", "typeItem", "roleItem",
     "propertyDesc", "propertyNotes"}

\* the type of the template that holds the role
TypeOfRole(role) ==
    CASE role \in {"roleArc", "roleStoryline"} -> "typeArc"
      [] role = "roleCharacter" -> "typeCharacter"
      [] role = "roleLocation" -> "typeLocation"
      [] role = "roleItem" -> "typeItem"

TemplateRoles == {"roleArc", "roleStoryline", "roleCharacter", "roleLocation", "roleItem"}

\* "Get GUID of user defined types and roles" and "... properties": the guid
\* of the name n that the loops over the template tpl find, a guid being the
\* name here
FoundGuid(tpl, n) == IF n \in tpl THEN Some(n) ELSE None

\* the guid of a role of the character, location or item type after read: the
\* role is given a guid of get_uid together with its type, when the type is
\* missing
RoleGuid(tpl, role) ==
    IF TypeOfRole(role) \in tpl THEN FoundGuid(tpl, role) ELSE Some(role)

\* the guids of the instance after "Add ... type, if missing" and "Create user
\* defined properties, if missing"
ResolveGuids(tpl) ==
    [n \in FullTemplate |->
        IF n \in {"roleCharacter", "roleLocation", "roleItem"}
        THEN RoleGuid(tpl, n)
        ELSE Some(n)]

\* "Add ... type, if missing" for the character, location and item type: the
\* type is appended with its role
WithType(tpl, type, role) == IF type \in tpl THEN tpl ELSE tpl \cup {type, role}

\* the template of the JSON data after read: the Arc type and its two roles,
\* the three other types and the two properties, as far as they were missing
RepairTemplate(tpl) ==
    WithType(WithType(WithType(tpl, "typeCharacter", "roleCharacter"),
                      "typeLocation", "roleLocation"),
             "typeItem", "roleItem")
    \cup {"typeArc", "roleArc", "roleStoryline", "propertyNotes", "propertyDesc"}

\* JsonTimeline2.__init__
NewTimeline ==
    [scenes |-> <<>>, chapters |-> <<>>, srtChapters |-> <<>>,
     characters |-> <<>>, srtCharacters |-> <<>>,
     locations |-> <<>>, srtLocations |-> <<>>,
     items |-> <<>>, srtItems |-> <<>>,
     jsonData |-> None, timestampMax |-> TsZero, narrativeGuid |-> None,
     arcCount |-> 0, arcGuidsByName |-> <<>>,
     characterGuidById |-> <<>>, locationGuidById |-> <<>>,
     itemGuidById |-> <<>>, trashEvents |-> <<>>,
     tplGuids |-> [n \in FullTemplate |-> None]]

\* what a method call leaves behind: the object, the returned message, and
\* whether an exception escaped instead of a message being returned
Result(obj, msg) == [obj |-> obj, message |-> msg, raised |-> FALSE]
Raised(obj, what) == [obj |-> obj, message |-> Err(what, ""), raised |-> TRUE]

\* a read that keeps the scenes in the order of the events
KeepOrder(s) == s

\* stable sort of [ts, id] pairs by timestamp: sorted(scIdsByDate.items())
RECURSIVE InsertByTs(_, _)
InsertByTs(sorted, e) ==
    IF sorted = <<>> THEN <<e>>
    ELSE IF TsLess(e.ts, Head(sorted).ts) THEN <<e>> \o sorted
         ELSE <<Head(sorted)>> \o InsertByTs(Tail(sorted), e)
RECURSIVE SortByTs(_)
SortByTs(s) ==
    IF s = <<>> THEN <<>>
    ELSE InsertByTs(SortByTs(SubSeq(s, 1, Len(s) - 1)), s[Len(s)])

\* a read that does not look for repeated titles
NoAmbiguousEvent(events) == 0

\* index of the first event whose title an earlier event has; 0 if none
FirstAmbiguousEvent(events) ==
    LET D == {i \in DOMAIN events : \E j \in 1..(i - 1) : events[j].title = events[i].title}
    IN IF D = {} THEN 0 ELSE CHOOSE i \in D : \A k \in D : i <= k

\* index of the first event the scene loop raises an exception on; 0 if none
FirstRaisingEvent(events, ctx) ==
    LET R == {i \in DOMAIN events : ReadSceneRaises(events[i], ctx)}
    IN IF R = {} THEN 0 ELSE CHOOSE i \in R : \A k \in R : i <= k

\* _timestampMax after the scene loop over events[1..n]
TimestampMax(events, n, narrativeGuid) ==
    LET N == {i \in 1..n : IsNarrativeEvent(events[i], narrativeGuid)}
        top == IF N = {} THEN TsZero
               ELSE EventTimestamp(events[CHOOSE i \in N :
                        \A k \in N : TsLeq(EventTimestamp(events[k]),
                                           EventTimestamp(events[i]))])
    IN top

GuidById(ents) == [i \in DOMAIN ents |-> [id |-> ents[i].id, guid |-> ents[i].guid]]
Elements(ents) == [i \in DOMAIN ents |-> NewElement(ents[i].id, ents[i].title)]

\* JsonTimeline2.read on a fresh instance; doc is the JSON part of the file
\* the entities of the file by type, and the arcs (lines "Get GUIDs")
ReadContext(entities) ==
    [narrativeGuid |-> NarrativeGuid(entities),
     arcGuids |-> ArcGuidsByName(entities, <<>>),
     characters |-> EntitiesOfType(entities, TypeCharacter, 0),
     locations |-> EntitiesOfType(entities, TypeLocation, 0),
     items |-> EntitiesOfType(entities, TypeItem, 0)]

\* where the scene loop ends: behind the last of n events, at the first
\* event amb with a title seen before, or at the first event exc that raises
ReadStop(amb, exc, n) ==
    IF amb = 0 /\ exc = 0 THEN [at |-> n + 1, why |-> "end"]
    ELSE IF exc = 0 \/ (amb # 0 /\ amb <= exc) THEN [at |-> amb, why |-> "ambiguous"]
    ELSE [at |-> exc, why |-> "raised"]

\* the timeline object when the scene loop has handled the first done events
ReadObject(doc, ctx, done) ==
    [NewTimeline EXCEPT
        !.jsonData = Some([doc EXCEPT
            !.template = RepairTemplate(doc.template),
            !.events = [i \in DOMAIN doc.events |->
                           IF i <= done THEN NormalizedEvent(doc.events[i])
                           ELSE doc.events[i]]]),
        !.scenes = [i \in 1..done |-> ReadScene(doc.events[i], i, ctx)],
        !.characters = Elements(ctx.characters),
        !.srtCharacters = Keys(ctx.characters),
        !.locations = Elements(ctx.locations),
        !.srtLocations = Keys(ctx.locations),
        !.items = Elements(ctx.items),
        !.srtItems = Keys(ctx.items),
        !.characterGuidById = GuidById(ctx.characters),
        !.locationGuidById = GuidById(ctx.locations),
        !.itemGuidById = GuidById(ctx.items),
        !.tplGuids = ResolveGuids(doc.template),
        !.narrativeGuid = ctx.narrativeGuid,
        !.arcGuidsByName = ctx.arcGuids,
        !.arcCount = ArcCount(doc.entities),
        !.timestampMax = TimestampMax(doc.events, done, ctx.narrativeGuid)]

\* "Sort scenes by date/time": the scene ids in the order of the timestamps
SceneOrder(byDate) == [i \in DOMAIN byDate |-> byDate[i].id]

\* "Create a chapter for the scenes/notes scenes" and put the scenes in
ReadChapters(obj, order) ==
    [obj EXCEPT
        !.chapters =
            <<[NewChapter(1) EXCEPT
                  !.title = "Chapter 1", !.chType = Some(0),
                  !.srtScenes = SelectSeq(order,
                      LAMBDA id : ~IsTrue(obj.scenes[id].isNotesScene))],
              [NewChapter(2) EXCEPT
                  !.title = "Background", !.chType = Some(1),
                  !.srtScenes = SelectSeq(order,
                      LAMBDA id : IsTrue(obj.scenes[id].isNotesScene))]>>,
        !.srtChapters = <<1, 2>>,
        !.timestampMax = IF @ = TsZero THEN DEFAULT_TIMESTAMP ELSE @]

\* what read returns when the scene loop has ended at stop with the object obj
ReadEnd(doc, stop, obj) ==
    IF stop.why = "ambiguous"
    THEN Result(obj, Err("Ambiguous Aeon event title", doc.events[stop.at].title))
    ELSE IF stop.why = "raised" THEN Raised(obj, "exception in JsonTimeline2.read")
    ELSE Result(ReadChapters(obj,
                    SceneOrder(SortByTs([i \in DOMAIN doc.events |->
                        [ts |-> EventTimestamp(doc.events[i]), id |-> i]]))),
                Ok("Timeline data converted to novel structure."))

ReadEvents(doc, ctx, stop) == ReadEnd(doc, stop, ReadObject(doc, ctx, stop.at - 1))

JsonRead(doc) ==
    IF ~doc.era
    THEN Result([NewTimeline EXCEPT !.jsonData = Some(doc)],
                Err("\"AD\" era is missing in the calendar.", ""))
    ELSE ReadEvents(doc, ReadContext(doc.entities),
            ReadStop(FirstAmbiguousEvent(doc.events),
                     FirstRaisingEvent(doc.events, ReadContext(doc.entities)),
                     Len(doc.events)))

----------------------------------------------------------------------------
(* Yw7File: the .yw7 XML tree, read and write *)

\* a SCENE element holding nothing but its ID
NewXmlScene(id) ==
    [id |-> id, title |-> "", desc |-> None, sceneContent |-> None,
     unused |-> FALSE, sceneType |-> None, status |-> None, notes |-> None,
     tags |-> None, specificDateTime |-> None,
     day |-> None, hour |-> None, minute |-> None,
     lastsDays |-> None, lastsHours |-> None, lastsMinutes |-> None,
     characters |-> <<>>, locations |-> <<>>, items |-> <<>>, arcs |-> None]

\* a CHAPTER element holding nothing but its ID
NewXmlChapter(id) ==
    [id |-> id, title |-> "", chType |-> None, unused |-> FALSE,
     isTrash |-> None, scenes |-> <<>>]

\* Yw7File.__init__
NewYw7File ==
    [scenes |-> <<>>, chapters |-> <<>>, srtChapters |-> <<>>,
     characters |-> <<>>, srtCharacters |-> <<>>,
     locations |-> <<>>, srtLocations |-> <<>>,
     items |-> <<>>, srtItems |-> <<>>, tree |-> None]

\* "Read attributes at scene level from the xml element tree."
ReadXmlScene(x) ==
    [NewScene(x.id) EXCEPT
        !.title = x.title,
        !.desc = x.desc,
        !.sceneContent = x.sceneContent,
        !.isUnused = Some(x.unused),
        !.isNotesScene = Some(x.sceneType = Some(1)),
        !.isTodoScene = Some(x.sceneType = Some(2)),
        !.status = x.status,
        !.sceneNotes = x.notes,
        !.tags = IF Truthy(x.tags) THEN x.tags ELSE None,
        !.date = IF x.specificDateTime = None THEN None
                 ELSE Some(Val(x.specificDateTime).date),
        !.time = IF x.specificDateTime = None THEN None
                 ELSE Some(Val(x.specificDateTime).time),
        !.day = IF x.specificDateTime = None THEN x.day ELSE None,
        !.hour = IF x.specificDateTime = None THEN x.hour ELSE None,
        !.minute = IF x.specificDateTime = None THEN x.minute ELSE None,
        !.lastsDays = x.lastsDays,
        !.lastsHours = x.lastsHours,
        !.lastsMinutes = x.lastsMinutes,
        !.characters = IF x.characters = <<>> THEN None ELSE Some(x.characters),
        !.locations = IF x.locations = <<>> THEN None ELSE Some(x.locations),
        !.items = IF x.items = <<>> THEN None ELSE Some(x.items),
        !.arcs = x.arcs]

\* "Read attributes at chapter level from the xml element tree."
ReadXmlChapter(x) ==
    [NewChapter(x.id) EXCEPT
        !.title = x.title,
        !.chType = IF x.chType = None THEN Some(0) ELSE x.chType,
        !.isUnused = Some(x.unused),
        !.isTrash = x.isTrash,
        !.srtScenes = x.scenes]

\* "Make sure that ToDo, Notes, and Unused type is inherited from the chapter."
\* The chapters are visited in order; each applies its type to its scenes.
RECURSIVE InheritFromChapters(_, _)
InheritFromChapters(scenes, chapters) ==
    IF chapters = <<>> THEN scenes
    ELSE LET ch == Head(chapters)
             inCh(sc) == InList(sc.id, ch.srtScenes)
             upd(sc) ==
                IF ~inCh(sc) THEN sc
                ELSE IF ch.chType = Some(2)
                     THEN [sc EXCEPT !.isTodoScene = Some(TRUE), !.isUnused = Some(TRUE)]
                ELSE IF ch.chType = Some(1)
                     THEN [sc EXCEPT !.isNotesScene = Some(TRUE), !.isUnused = Some(TRUE)]
                ELSE IF IsTrue(ch.isUnused)
                     THEN [sc EXCEPT !.isUnused = Some(TRUE)]
                ELSE sc
         IN InheritFromChapters([i \in DOMAIN scenes |-> upd(scenes[i])],
                                Tail(chapters))

YwLockedMessage == Err("yWriter seems to be open. Please close first", "")

\* Yw7File.read on a fresh instance; xml is the file, locked the lock sentinel
YwRead(xml, locked) ==
    IF locked THEN Result(NewYw7File, YwLockedMessage)
    ELSE
    LET chapters == [i \in DOMAIN xml.chapters |-> ReadXmlChapter(xml.chapters[i])]
        scenes == [i \in DOMAIN xml.scenes |-> ReadXmlScene(xml.scenes[i])]
    IN Result([NewYw7File EXCEPT
                  !.tree = Some(xml),
                  !.locations = xml.locations, !.srtLocations = Keys(xml.locations),
                  !.items = xml.items, !.srtItems = Keys(xml.items),
                  !.characters = xml.characters, !.srtCharacters = Keys(xml.characters),
                  !.chapters = chapters, !.srtChapters = Keys(chapters),
                  !.scenes = InheritFromChapters(scenes, chapters)],
              Ok("yWriter project data read in."))

\* build_scene_subtree: the SCENE element x after the scene sc is written to it
BuildSceneSubtree(x, sc) ==
    LET dated == sc.date # None /\ sc.time # None
        loose == ~dated /\ (sc.day # None \/ sc.hour # None \/ sc.minute # None)
        fresh == dated /\ x.specificDateTime = None
        keep(new, old) == IF new # None THEN new ELSE old
    IN [x EXCEPT
        !.title = sc.title,
        !.desc = keep(sc.desc, x.desc),
        !.sceneContent = keep(sc.sceneContent, x.sceneContent),
        !.unused = IsTrue(sc.isUnused),
        !.sceneType = IF IsTrue(sc.isTodoScene) THEN Some(2)
                      ELSE IF IsTrue(sc.isNotesScene) THEN Some(1)
                      ELSE IF x.sceneType \in {Some(1), Some(2)} THEN None
                      ELSE x.sceneType,
        !.arcs = IF Truthy(sc.arcs) THEN sc.arcs ELSE None,
        !.status = keep(sc.status, x.status),
        !.notes = keep(sc.sceneNotes, x.notes),
        !.tags = keep(sc.tags, x.tags),
        !.specificDateTime =
            IF dated THEN Some([date |-> Val(sc.date), time |-> Val(sc.time)])
            ELSE IF loose THEN None ELSE x.specificDateTime,
        !.day = IF fresh THEN None ELSE IF loose THEN keep(sc.day, x.day) ELSE x.day,
        !.hour = IF fresh THEN None ELSE IF loose THEN keep(sc.hour, x.hour) ELSE x.hour,
        !.minute = IF fresh THEN None
                   ELSE IF loose THEN keep(sc.minute, x.minute) ELSE x.minute,
        !.lastsDays = keep(sc.lastsDays, x.lastsDays),
        !.lastsHours = keep(sc.lastsHours, x.lastsHours),
        !.lastsMinutes = keep(sc.lastsMinutes, x.lastsMinutes),
        !.characters = IF sc.characters # None THEN Val(sc.characters) ELSE x.characters,
        !.locations = IF sc.locations # None THEN Val(sc.locations) ELSE x.locations,
        !.items = IF sc.items # None THEN Val(sc.items) ELSE x.items]

\* build_chapter_subtree
BuildChapterSubtree(x, ch) ==
    [x EXCEPT
        !.title = ch.title,
        !.chType = IF ch.chType = None THEN Some(0) ELSE ch.chType,
        !.unused = IsTrue(ch.isUnused),
        !.isTrash = IF IsTrue(ch.isTrash) THEN Some(TRUE)
                    ELSE IF x.isTrash # None THEN Some(FALSE) ELSE None,
        !.scenes = ch.srtScenes]

\* _build_element_tree: the tree of the instance with its variables written in
BuildElementTree(obj) ==
    LET old == Val(obj.tree)
        xmlScn(id) == IF HasKey(old.scenes, id) THEN Get(old.scenes, id)
                      ELSE NewXmlScene(id)
        xmlChp(id) == IF HasKey(old.chapters, id) THEN Get(old.chapters, id)
                      ELSE NewXmlChapter(id)
    IN [scenes |-> [i \in DOMAIN obj.scenes |->
                      BuildSceneSubtree(xmlScn(obj.scenes[i].id), obj.scenes[i])],
        chapters |-> [i \in DOMAIN obj.srtChapters |->
                      BuildChapterSubtree(xmlChp(obj.srtChapters[i]),
                                          Get(obj.chapters, obj.srtChapters[i]))],
        characters |-> [i \in DOMAIN obj.srtCharacters |->
                          Get(obj.characters, obj.srtCharacters[i])],
        locations |-> [i \in DOMAIN obj.srtLocations |->
                          Get(obj.locations, obj.srtLocations[i])],
        items |-> [i \in DOMAIN obj.srtItems |-> Get(obj.items, obj.srtItems[i])]]

----------------------------------------------------------------------------
(* Yw7Target.merge: update the novel from the timeline *)

\* index of the first member of titles that occurs earlier in titles; 0 if none
FirstDuplicate(titles) ==
    LET D == {i \in DOMAIN titles : \E j \in 1..(i - 1) : titles[j] = titles[i]}
    IN IF D = {} THEN 0 ELSE CHOOSE i \in D : \A k \in D : i <= k

Titles(d) == [i \in DOMAIN d |-> d[i].title]

\* the first title of a list that occurs twice, if any
Ambiguous(titles) ==
    IF FirstDuplicate(titles) = 0 THEN None ELSE Some(titles[FirstDuplicate(titles)])

\* the message of the first of the checks [text, dup] that found a title
FirstError(checks) ==
    LET bad == SelectSeq(checks, LAMBDA c : c.dup # None)
    IN IF bad = <<>> THEN NoMessage ELSE Err(bad[1].text, Val(bad[1].dup))

\* a merge that collects what is assigned to any scene, Notes scenes included
RECURSIVE LinkedWithNotes(_, _)
LinkedWithNotes(scenes, field) ==
    IF scenes = <<>> THEN <<>>
    ELSE IF Truthy(Head(scenes)[field])
         THEN Dedup(Val(Head(scenes)[field]) \o LinkedWithNotes(Tail(scenes), field))
         ELSE LinkedWithNotes(Tail(scenes), field)

\* "Collect characters, locations, and items assigned to normal scenes."
\* field names the list of a scene; the result is used as a set
RECURSIVE Linked(_, _)
Linked(scenes, field) ==
    IF scenes = <<>> THEN <<>>
    ELSE LET sc == Head(scenes) IN
         IF ~IsTrue(sc.isNotesScene) /\ Truthy(sc[field])
         THEN Dedup(Val(sc[field]) \o Linked(Tail(scenes), field))
         ELSE Linked(Tail(scenes), field)

\* the elements of a dict whose id is linked, in dict order
LinkedElements(elements, linked) ==
    SelectSeq(elements, LAMBDA e : InList(e.id, linked))

\* a merge that flips the unused flag of the scenes of deleted events
MarkToggled(scenes, srcScnTitles) ==
    [i \in DOMAIN scenes |->
        IF ~InList(scenes[i].title, srcScnTitles) /\ ~IsTrue(scenes[i].isNotesScene)
        THEN [scenes[i] EXCEPT !.isUnused = Some(~IsTrue(@))]
        ELSE scenes[i]]

\* a merge that leaves the scenes of deleted events as they are
MarkNothing(scenes, srcScnTitles) == scenes

\* "Mark scenes associated with deleted events 'Unused'."
MarkUnused(scenes, srcScnTitles) ==
    [i \in DOMAIN scenes |->
        IF ~InList(scenes[i].title, srcScnTitles) /\ ~IsTrue(scenes[i].isNotesScene)
        THEN [scenes[i] EXCEPT !.isUnused = Some(TRUE)]
        ELSE scenes[i]]

\* the scene ids the check of the target for ambiguous titles looks at:
\* the scenes of all chapters except the unused normal ones
RECURSIVE CheckedScenes(_, _)
CheckedScenes(chapters, scenes) ==
    IF chapters = <<>> THEN <<>>
    ELSE SelectSeq(Head(chapters).srtScenes,
            LAMBDA id : ~(IsTrue(Get(scenes, id).isUnused)
                          /\ ~IsTrue(Get(scenes, id).isNotesScene)))
         \o CheckedScenes(Tail(chapters), scenes)

\* scIdsByTitle / crIdsByName / ...: [id |-> title, ref |-> id of the element]
ByTitle(ids, d) == [i \in DOMAIN ids |-> [id |-> Get(d, ids[i]).title, ref |-> ids[i]]]

MaxId(d) == IF d = <<>> THEN 0 ELSE Max({d[i].id : i \in DOMAIN d})

\* "Update characters from the source." (and locations, items):
\* acc = [bySrcId, elements, srt, idMax]
RECURSIVE BindElements(_, _, _, _)
BindElements(srcElements, byName, linked, acc) ==
    IF srcElements = <<>> THEN acc
    ELSE LET e == Head(srcElements) IN
         IF HasKey(byName, e.title)
         THEN BindElements(Tail(srcElements), byName, linked,
                [acc EXCEPT !.bySrcId =
                    Put(@, [id |-> e.id, ref |-> Get(byName, e.title).ref])])
         ELSE IF InList(e.id, linked)
         THEN BindElements(Tail(srcElements), byName, linked,
                [bySrcId |-> Put(acc.bySrcId, [id |-> e.id, ref |-> acc.idMax + 1]),
                 elements |-> Put(acc.elements, [e EXCEPT !.id = acc.idMax + 1]),
                 srt |-> Append(acc.srt, acc.idMax + 1),
                 idMax |-> acc.idMax + 1])
         ELSE BindElements(Tail(srcElements), byName, linked, acc)

Refs(bySrcId) == [i \in DOMAIN bySrcId |-> bySrcId[i].ref]

\* the target ids of the source ids that are bound, without repetition
RECURSIVE AppendBound(_, _, _)
AppendBound(lst, srcIds, bySrcId) ==
    IF srcIds = <<>> THEN lst
    ELSE LET ref == Get(bySrcId, Head(srcIds)).ref IN
         AppendBound(IF InList(ref, lst) THEN lst ELSE Append(lst, ref),
                     Tail(srcIds), bySrcId)

\* "Update scene characters.": TypeError when the target scene has no
\* character list, KeyError when a source character is not bound
UpdateCharactersRaises(tgt, src, crIdsBySrcId) ==
    /\ src.characters # None
    /\ \/ tgt.characters = None
       \/ \E i \in DOMAIN Val(src.characters) :
             ~HasKey(crIdsBySrcId, Val(src.characters)[i])

UpdateCharacters(tgt, src, crIdsBySrcId) ==
    IF src.characters = None THEN tgt.characters
    ELSE LET old == Val(tgt.characters)
             viewpoint == IF old = <<>> THEN 0 ELSE old[1]
             start == IF InList(viewpoint, Refs(crIdsBySrcId))
                      THEN <<viewpoint>> ELSE <<>>
         IN Some(AppendBound(start, Val(src.characters), crIdsBySrcId))

\* "Update scene locations." / "Update scene items."
UpdateElements(old, srcList, bySrcId) ==
    IF srcList = None THEN old
    ELSE LET bound == SelectSeq(Val(srcList), LAMBDA id : HasKey(bySrcId, id))
         IN Some([i \in DOMAIN bound |-> Get(bySrcId, bound[i]).ref])

\* a merge that puts the event notes in the place of the scene notes
ReplaceNotes(tgtNotes, srcNotes) == IF srcNotes = None THEN tgtNotes ELSE srcNotes

\* "Append event notes to scene notes."
AppendNotes(tgtNotes, srcNotes) ==
    IF srcNotes = None THEN tgtNotes
    ELSE IF tgtNotes = None THEN srcNotes
    ELSE IF IsSubstring(Val(srcNotes), Val(tgtNotes)) THEN tgtNotes
    ELSE Some(Val(tgtNotes) \o <<"\n">> \o Val(srcNotes))

\* a merge that keeps the start and the duration of a scene whose event has
\* no date
UpdateSceneKeepingDate(tgt, src, env) ==
    [tgt EXCEPT
        !.isNotesScene = src.isNotesScene,
        !.isUnused = src.isUnused,
        !.date = IF src.date # None THEN src.date ELSE tgt.date,
        !.time = IF src.date # None THEN src.time ELSE tgt.time,
        !.lastsMinutes = IF src.date # None THEN src.lastsMinutes ELSE tgt.lastsMinutes,
        !.lastsHours = IF src.date # None THEN src.lastsHours ELSE tgt.lastsHours,
        !.lastsDays = IF src.date # None THEN src.lastsDays ELSE tgt.lastsDays,
        !.tags = IF src.tags # None THEN src.tags ELSE tgt.tags,
        !.desc = IF src.desc # None THEN src.desc ELSE tgt.desc,
        !.sceneNotes = AppendNotes(tgt.sceneNotes, src.sceneNotes),
        !.characters = UpdateCharacters(tgt, src, env.crIdsBySrcId),
        !.locations = UpdateElements(tgt.locations, src.locations, env.lcIdsBySrcId),
        !.items = UpdateElements(tgt.items, src.items, env.itIdsBySrcId),
        !.arcs = src.arcs]

\* a merge that takes tags and description from the source even if it has none
UpdateSceneTakingAll(tgt, src, env) ==
    [tgt EXCEPT
        !.isNotesScene = src.isNotesScene,
        !.isUnused = src.isUnused,
        !.date = src.date,
        !.time = src.time,
        !.lastsMinutes = src.lastsMinutes,
        !.lastsHours = src.lastsHours,
        !.lastsDays = src.lastsDays,
        !.tags = src.tags,
        !.desc = src.desc,
        !.sceneNotes = AppendNotes(tgt.sceneNotes, src.sceneNotes),
        !.characters = UpdateCharacters(tgt, src, env.crIdsBySrcId),
        !.locations = UpdateElements(tgt.locations, src.locations, env.lcIdsBySrcId),
        !.items = UpdateElements(tgt.items, src.items, env.itIdsBySrcId),
        !.arcs = src.arcs]

\* the target scene tgt updated from the source scene src (lines "Update
\* scene type" to "Update scene keyword variables")
UpdateScene(tgt, src, env) ==
    [tgt EXCEPT
        !.isNotesScene = src.isNotesScene,
        !.isUnused = src.isUnused,
        !.date = src.date,
        !.time = src.time,
        !.lastsMinutes = src.lastsMinutes,
        !.lastsHours = src.lastsHours,
        !.lastsDays = src.lastsDays,
        !.tags = IF src.tags # None THEN src.tags ELSE tgt.tags,
        !.desc = IF src.desc # None THEN src.desc ELSE tgt.desc,
        !.sceneNotes = AppendNotes(tgt.sceneNotes, src.sceneNotes),
        !.characters = UpdateCharacters(tgt, src, env.crIdsBySrcId),
        !.locations = UpdateElements(tgt.locations, src.locations, env.lcIdsBySrcId),
        !.items = UpdateElements(tgt.items, src.items, env.itIdsBySrcId),
        !.arcs = src.arcs]

\* "Update scenes from the source.": st = [scenes, chapters, srtChapters,
\* scIdMax, raised]; srcIds are the scenes of the source's chapters in order
RECURSIVE UpdateScenes(_, _, _)
UpdateScenes(srcIds, st, env) ==
    IF srcIds = <<>> \/ st.raised THEN st
    ELSE
    LET src == Get(env.source.scenes, Head(srcIds))
        known == HasKey(env.scIdsByTitle, src.title)
        scId == IF known THEN Get(env.scIdsByTitle, src.title).ref ELSE st.scIdMax + 1
        created == [NewScene(scId) EXCEPT !.title = src.title, !.status = Some(1)]
        tgt == IF known THEN Get(st.scenes, scId) ELSE created
        newChapter == [NewChapter(env.newChapterId) EXCEPT !.title = "New scenes"]
        chapters1 == IF HasKey(st.chapters, env.newChapterId) THEN st.chapters
                     ELSE Append(st.chapters, newChapter)
        chapters2 == Put(chapters1,
                        [Get(chapters1, env.newChapterId) EXCEPT
                            !.srtScenes = Append(@, scId)])
        srt2 == IF HasKey(st.chapters, env.newChapterId) THEN st.srtChapters
                ELSE Append(st.srtChapters, env.newChapterId)
        st1 == IF known THEN st
               ELSE [st EXCEPT !.scenes = Append(@, created),
                               !.chapters = chapters2,
                               !.srtChapters = srt2,
                               !.scIdMax = scId]
    IN IF IsTrue(src.isNotesScene) /\ env.scenesOnly
       THEN \* Make "non-Narative" event a "Notes" scene.
            UpdateScenes(Tail(srcIds),
                IF known
                THEN [st EXCEPT !.scenes = Put(@,
                        [Get(st.scenes, scId) EXCEPT
                            !.isNotesScene = Some(TRUE), !.isUnused = Some(TRUE)])]
                ELSE st,
                env)
       ELSE IF UpdateCharactersRaises(tgt, src, env.crIdsBySrcId)
       THEN [st1 EXCEPT !.raised = TRUE]
       ELSE UpdateScenes(Tail(srcIds),
                [st1 EXCEPT !.scenes = Put(@, UpdateScene(tgt, src, env))],
                env)

\* the scene ids of all chapters, the trash bin included
RECURSIVE ScenesOfChaptersAndTrash(_)
ScenesOfChaptersAndTrash(chapters) ==
    IF chapters = <<>> THEN <<>>
    ELSE Head(chapters).srtScenes \o ScenesOfChaptersAndTrash(Tail(chapters))

\* the scene ids of the chapters of a novel that are not trash, in order
RECURSIVE ScenesOfChapters(_)
ScenesOfChapters(chapters) ==
    IF chapters = <<>> THEN <<>>
    ELSE (IF IsTrue(Head(chapters).isTrash) THEN <<>> ELSE Head(chapters).srtScenes)
         \o ScenesOfChapters(Tail(chapters))

\* the target with the elements bound and the scenes updated
YwMerged(marked, crs, lcs, its, st) ==
    [marked EXCEPT
        !.characters = crs.elements, !.srtCharacters = crs.srt,
        !.locations = lcs.elements, !.srtLocations = lcs.srt,
        !.items = its.elements, !.srtItems = its.srt,
        !.scenes = st.scenes, !.chapters = st.chapters,
        !.srtChapters = st.srtChapters]

\* what merge returns when the scene loop has ended in st
YwUpdated(marked, crs, lcs, its, st) ==
    IF st.raised
    THEN Raised(YwMerged(marked, crs, lcs, its, st), "exception in Yw7Target.merge")
    ELSE Result(YwMerged(marked, crs, lcs, its, st),
                Ok("Novel updated from timeline data."))

\* "Update scenes from the source."
YwUpdate(marked, src, scenesOnly, checked, crs, lcs, its) ==
    YwUpdated(marked, crs, lcs, its,
        UpdateScenes(ScenesOfChapters(src.chapters),
            [scenes |-> marked.scenes, chapters |-> marked.chapters,
             srtChapters |-> marked.srtChapters,
             scIdMax |-> MaxId(marked.scenes), raised |-> FALSE],
            [source |-> src, scenesOnly |-> scenesOnly,
             scIdsByTitle |-> ByTitle(checked, marked.scenes),
             crIdsBySrcId |-> crs.bySrcId, lcIdsBySrcId |-> lcs.bySrcId,
             itIdsBySrcId |-> its.bySrcId,
             newChapterId |-> MaxId(marked.chapters) + 1]))

\* "Update characters from the source." and locations, items
YwBound(elements, srt, srcElements, linked) ==
    BindElements(srcElements, ByTitle(Keys(elements), elements), linked,
        [bySrcId |-> <<>>, elements |-> elements, srt |-> srt,
         idMax |-> MaxId(elements)])

\* the part of merge behind the checks of the target, which found err
YwBind(marked, src, scenesOnly, checked, err) ==
    IF err.error THEN Result(marked, err)
    ELSE YwUpdate(marked, src, scenesOnly, checked,
            YwBound(marked.characters, marked.srtCharacters, src.characters,
                    Linked(src.scenes, "characters")),
            YwBound(marked.locations, marked.srtLocations, src.locations,
                    Linked(src.scenes, "locations")),
            YwBound(marked.items, marked.srtItems, src.items,
                    Linked(src.scenes, "items")))

\* "Check the target for ambiguous titles."; checked are the scenes looked at
YwCheckTarget(marked, src, scenesOnly, checked) ==
    YwBind(marked, src, scenesOnly, checked,
        FirstError(<<
            [text |-> "Ambiguous yWriter scene title",
             dup |-> Ambiguous([i \in DOMAIN checked |->
                                   Get(marked.scenes, checked[i]).title])],
            [text |-> "Ambiguous yWriter character",
             dup |-> Ambiguous(Titles(marked.characters))],
            [text |-> "Ambiguous yWriter location",
             dup |-> Ambiguous(Titles(marked.locations))],
            [text |-> "Ambiguous yWriter item",
             dup |-> Ambiguous(Titles(marked.items))]>>))

\* "Analyze the target."; err is what the checks of the source found
YwAnalyze(obj, src, scenesOnly, err) ==
    IF err.error THEN Result(obj, err)
    ELSE YwCheckTarget(
            [obj EXCEPT !.scenes = MarkUnused(@, Titles(src.scenes))],
            src, scenesOnly,
            CheckedScenes(obj.chapters, MarkUnused(obj.scenes, Titles(src.scenes))))

\* "Check the source for ambiguous titles."
YwCheckSource(obj, src, scenesOnly) ==
    YwAnalyze(obj, src, scenesOnly,
        FirstError(<<
            [text |-> "Ambiguous Aeon event title",
             dup |-> Ambiguous(Titles(src.scenes))],
            [text |-> "Ambiguous yWriter character",
             dup |-> Ambiguous(Titles(LinkedElements(src.characters,
                                   Linked(src.scenes, "characters"))))],
            [text |-> "Ambiguous yWriter location",
             dup |-> Ambiguous(Titles(LinkedElements(src.locations,
                                   Linked(src.scenes, "locations"))))],
            [text |-> "Ambiguous yWriter item",
             dup |-> Ambiguous(Titles(LinkedElements(src.items,
                                   Linked(src.scenes, "items"))))]>>))

\* Yw7Target.merge(source) on a fresh target instance; read is what
\* self.read() returned and left behind
YwTargetMerge(read, src, scenesOnly) ==
    IF read.message.error THEN read
    ELSE YwCheckSource(read.obj, src, scenesOnly)

\* Yw7File.write: the file after the call, and the message
\* a write that does not look at the lock
YwWriteUnlocked(obj, xml, locked) ==
    [file |-> BuildElementTree(obj), message |-> Ok("File written")]

YwWrite(obj, xml, locked) ==
    IF locked THEN [file |-> xml, message |-> YwLockedMessage]
    ELSE [file |-> BuildElementTree(obj),
          message |-> Ok("File written")]

----------------------------------------------------------------------------
(* JsonTimeline2.merge: update the timeline from the novel *)

\* str(n) for the ids that occur
IdStr(n) == <<"1", "2", "3", "4", "5", "6", "7", "8", "9">>[n]

\* get_uid(text): a GUID that is a function of the text, kept as the text
get_uid(text) == <<"uid">> \o text

\* a string that may be None is true unless it is None or ''; dates, times and
\* numbers kept as integers stand for non-empty strings
IsSet(o) == o # None

\* "Collect characters, locations, and items assigned to scenes."
RECURSIVE LinkedAll(_, _)
LinkedAll(scenes, field) ==
    IF scenes = <<>> THEN <<>>
    ELSE IF Truthy(Head(scenes)[field])
         THEN Dedup(Val(Head(scenes)[field]) \o LinkedAll(Tail(scenes), field))
         ELSE LinkedAll(Tail(scenes), field)

\* kwVar['Field_SceneArcs'].split(';'): '' splits into ['']
SplitArcs(arcs) == IF Val(arcs) = <<>> THEN <<"">> ELSE Val(arcs)

\* "Collect arcs from source.": the arc table with the arcs of the scenes added
RECURSIVE AddArcs(_, _)
AddArcs(arcGuids, names) ==
    IF names = <<>> THEN arcGuids
    ELSE AddArcs(IF HasKey(arcGuids, Head(names)) THEN arcGuids
                 ELSE Append(arcGuids, [id |-> Head(names), guid |-> None]),
                 Tail(names))
RECURSIVE CollectArcs(_, _)
CollectArcs(arcGuids, scenes) ==
    IF scenes = <<>> THEN arcGuids
    ELSE CollectArcs(IF Head(scenes).arcs = None THEN arcGuids
                     ELSE AddArcs(arcGuids, SplitArcs(Head(scenes).arcs)),
                     Tail(scenes))

\* "Mark non-scene events.": indices of the events to delete
RECURSIVE TrashEvents(_, _)
\* a merge that finds no event to delete
NoTrashEvents(scenes, srcScnTitles) == <<>>

TrashEvents(scenes, srcScnTitles) ==
    IF scenes = <<>> THEN <<>>
    ELSE (IF ~InList(Head(scenes).title, srcScnTitles)
             /\ ~IsTrue(Head(scenes).isNotesScene)
          THEN <<Head(scenes).id - 1>> ELSE <<>>)
         \o TrashEvents(Tail(scenes), srcScnTitles)

\* build_event
BuildEvent(title) ==
    [guid |-> get_uid(<<"scene", title>>), title |-> title,
     desc |-> Some(<<>>), notes |-> Some(<<>>), tags |-> <<>>,
     rangeValue |-> Some([timestamp |-> DATE_LIMIT, span |-> <<>>]),
     relationships |-> <<>>]

\* "Update characters from the source." (and locations, items):
\* acc = [bySrcId, elements, guidById, entities, idMax]
RECURSIVE BindEntities(_, _, _, _, _)
BindEntities(srcElements, byTitle, linked, type, acc) ==
    IF srcElements = <<>> THEN acc
    ELSE LET e == Head(srcElements)
             newId == acc.idMax + 1
             newGuid == get_uid(<<IdStr(newId), e.title>>)
         IN
         IF HasKey(byTitle, e.title)
         THEN BindEntities(Tail(srcElements), byTitle, linked, type,
                [acc EXCEPT !.bySrcId =
                    Put(@, [id |-> e.id, ref |-> Get(byTitle, e.title).ref])])
         ELSE IF InList(e.id, linked)
         THEN BindEntities(Tail(srcElements), byTitle, linked, type,
                [bySrcId |-> Put(acc.bySrcId, [id |-> e.id, ref |-> newId]),
                 elements |-> Put(acc.elements, [e EXCEPT !.id = newId]),
                 guidById |-> Put(acc.guidById, [id |-> newId, guid |-> newGuid]),
                 entities |-> Append(acc.entities,
                                [entityType |-> type, name |-> e.title,
                                 guid |-> newGuid]),
                 idMax |-> newId])
         ELSE BindEntities(Tail(srcElements), byTitle, linked, type, acc)

\* "Update scene start date/time."
MergeDate(tgt, src) ==
    IF IsSet(src.date) \/ IsSet(src.time)
    THEN [tgt EXCEPT !.date = IF src.date # None THEN src.date ELSE @,
                     !.time = IF src.time # None THEN src.time ELSE @]
    ELSE IF IsSet(src.minute) \/ IsSet(src.hour) \/ IsSet(src.day)
    THEN [tgt EXCEPT !.date = None, !.time = None]
    ELSE tgt

\* the event scene tgt updated from the novel scene src
JsonUpdateScene(tgt, src, env) ==
    LET dated == MergeDate(tgt, src) IN
    [dated EXCEPT
        !.status = src.status,
        !.isNotesScene = src.isNotesScene,
        !.isUnused = src.isUnused,
        !.tags = IF src.tags # None THEN src.tags ELSE @,
        !.desc = IF src.desc # None THEN src.desc ELSE @,
        !.characters = UpdateElements(@, src.characters, env.crIdsBySrcId),
        !.locations = UpdateElements(@, src.locations, env.lcIdsBySrcId),
        !.items = UpdateElements(@, src.items, env.itIdsBySrcId),
        !.minute = IF src.minute # None THEN src.minute ELSE @,
        !.hour = IF src.hour # None THEN src.hour ELSE @,
        !.day = IF src.day # None THEN src.day ELSE @,
        !.lastsMinutes = IF src.lastsMinutes # None THEN src.lastsMinutes ELSE @,
        !.lastsHours = IF src.lastsHours # None THEN src.lastsHours ELSE @,
        !.lastsDays = IF src.lastsDays # None THEN src.lastsDays ELSE @,
        !.arcs = src.arcs]

\* "Update scenes from the source.": st = [scenes, events]
RECURSIVE JsonUpdateScenes(_, _, _)
JsonUpdateScenes(srcIds, st, env) ==
    IF srcIds = <<>> THEN st
    ELSE
    LET src == Get(env.source.scenes, Head(srcIds))
        known == HasKey(env.scIdsByTitle, src.title)
        scId == IF known THEN Get(env.scIdsByTitle, src.title).ref
                ELSE Len(st.events) + 1
        tgt == IF known THEN Get(st.scenes, scId)
               ELSE [NewScene(scId) EXCEPT !.title = src.title]
        demoted == IF known
                   THEN [st EXCEPT !.scenes = Put(@,
                            [Get(st.scenes, scId) EXCEPT !.isNotesScene = Some(TRUE)])]
                   ELSE st
    IN IF IsTrue(src.isUnused) /\ ~IsTrue(src.isNotesScene)
       THEN \* Remove unused scene from the "Narrative" arc.
            JsonUpdateScenes(Tail(srcIds), demoted, env)
       ELSE IF IsTrue(src.isNotesScene) /\ env.scenesOnly
       THEN \* Remove unsynchronized scene from the "Narrative" arc.
            JsonUpdateScenes(Tail(srcIds), demoted, env)
       ELSE JsonUpdateScenes(Tail(srcIds),
                [scenes |-> Put(st.scenes, JsonUpdateScene(tgt, src, env)),
                 events |-> IF known THEN st.events
                            ELSE Append(st.events, BuildEvent(src.title))],
                env)

\* the scene ids of all chapters of a novel, in order
RECURSIVE ScenesOfAllChapters(_)
ScenesOfAllChapters(chapters) ==
    IF chapters = <<>> THEN <<>>
    ELSE Head(chapters).srtScenes \o ScenesOfAllChapters(Tail(chapters))

\* JsonTimeline2.merge(source) on a fresh target instance; doc is the JSON
\* part of the target file
\* the scenes of the chapters of the source that are not trash
SourceScenes(src, ids) == [i \in DOMAIN ids |-> Get(src.scenes, ids[i])]

\* the scenes a check for ambiguous titles has looked at when it ends
Seen(scenes, amb) == IF amb = 0 THEN scenes ELSE SubSeq(scenes, 1, amb - 1)

\* "Update characters from the source." (and locations, items); entities
\* are the entities of the JSON data so far
JsonBound(elements, guidById, srcElements, linked, type, entities) ==
    BindEntities(srcElements, ByTitle(Keys(elements), elements), linked, type,
        [bySrcId |-> <<>>, elements |-> elements, guidById |-> guidById,
         entities |-> entities, idMax |-> Len(elements)])

\* what merge returns when the scenes are updated
JsonMerged(obj, crs, lcs, its, st) ==
    Result([obj EXCEPT
               !.characters = crs.elements, !.characterGuidById = crs.guidById,
               !.locations = lcs.elements, !.locationGuidById = lcs.guidById,
               !.items = its.elements, !.itemGuidById = its.guidById,
               !.scenes = st.scenes,
               !.jsonData = Some([Val(obj.jsonData) EXCEPT
                                     !.entities = its.entities,
                                     !.events = st.events])],
           Ok("Timeline updated from novel data."))

\* "Update scenes from the source."
JsonUpdate(obj, src, scenesOnly, crs, lcs, its) ==
    JsonMerged(obj, crs, lcs, its,
        JsonUpdateScenes(ScenesOfAllChapters(src.chapters),
            [scenes |-> obj.scenes, events |-> Val(obj.jsonData).events],
            [source |-> src, scenesOnly |-> scenesOnly,
             scIdsByTitle |-> ByTitle(Keys(obj.scenes), obj.scenes),
             crIdsBySrcId |-> crs.bySrcId, lcIdsBySrcId |-> lcs.bySrcId,
             itIdsBySrcId |-> its.bySrcId]))

JsonBindItems(obj, src, scenesOnly, seen, crs, lcs) ==
    JsonUpdate(obj, src, scenesOnly, crs, lcs,
        JsonBound(obj.items, obj.itemGuidById, src.items,
                  LinkedAll(seen, "items"), TypeItem, lcs.entities))

JsonBindLocations(obj, src, scenesOnly, seen, crs) ==
    JsonBindItems(obj, src, scenesOnly, seen, crs,
        JsonBound(obj.locations, obj.locationGuidById, src.locations,
                  LinkedAll(seen, "locations"), TypeLocation, crs.entities))

\* the part of merge behind the checks of the target, which found err
JsonBind(obj, src, scenesOnly, seen, err) ==
    IF err.error THEN Result(obj, err)
    ELSE JsonBindLocations(obj, src, scenesOnly, seen,
            JsonBound(obj.characters, obj.characterGuidById, src.characters,
                      LinkedAll(seen, "characters"), TypeCharacter,
                      Val(obj.jsonData).entities))

\* "Check the target for ambiguous titles.", which collects the events to
\* delete on its way; err is what the checks of the source found
JsonCheckTarget(obj, src, scenesOnly, seen, err) ==
    IF err.error THEN Result(obj, err)
    ELSE JsonBind([obj EXCEPT !.trashEvents =
                      @ \o TrashEvents(Seen(obj.scenes,
                                            FirstDuplicate(Titles(obj.scenes))),
                                       Titles(seen))],
                  src, scenesOnly, seen,
                  FirstError(<<
                      [text |-> "Ambiguous Aeon event title",
                       dup |-> Ambiguous(Titles(obj.scenes))],
                      [text |-> "Ambiguous Aeon character",
                       dup |-> Ambiguous(Titles(obj.characters))],
                      [text |-> "Ambiguous Aeon location",
                       dup |-> Ambiguous(Titles(obj.locations))],
                      [text |-> "Ambiguous Aeon item",
                       dup |-> Ambiguous(Titles(obj.items))]>>))

\* "Check the source for ambiguous titles.", which collects the arcs of the
\* scenes on its way; seen are the scenes in front of the first repeated title
JsonCheckSource(obj, src, scenesOnly, srcScenes, seen) ==
    JsonCheckTarget([obj EXCEPT !.arcGuidsByName = CollectArcs(@, seen)],
        src, scenesOnly, seen,
        FirstError(<<
            [text |-> "Ambiguous yWriter scene title",
             dup |-> Ambiguous(Titles(srcScenes))],
            [text |-> "Ambiguous yWriter character",
             dup |-> Ambiguous(Titles(LinkedElements(src.characters,
                                   LinkedAll(seen, "characters"))))],
            [text |-> "Ambiguous yWriter location",
             dup |-> Ambiguous(Titles(LinkedElements(src.locations,
                                   LinkedAll(seen, "locations"))))],
            [text |-> "Ambiguous yWriter item",
             dup |-> Ambiguous(Titles(LinkedElements(src.items,
                                   LinkedAll(seen, "items"))))]>>))

JsonSource(obj, src, scenesOnly, srcScenes) ==
    JsonCheckSource(obj, src, scenesOnly, srcScenes,
                    Seen(srcScenes, FirstDuplicate(Titles(srcScenes))))

\* JsonTimeline2.merge(source) on a fresh target instance; read is what
\* self.read() returned and left behind
JsonMerge(read, src, scenesOnly) ==
    IF read.raised \/ read.message.error THEN read
    ELSE JsonSource(read.obj, src, scenesOnly,
                    SourceScenes(src, ScenesOfChapters(src.chapters)))

----------------------------------------------------------------------------
(* JsonTimeline2.write *)

\* get_span
GetSpan(scene) ==
    LET K == {k \in {"days", "hours", "minutes"} :
                \/ k = "days" /\ IsSet(scene.lastsDays)
                \/ k = "hours" /\ IsSet(scene.lastsHours)
                \/ k = "minutes" /\ IsSet(scene.lastsMinutes)}
    IN [k \in K |-> IF k = "days" THEN Val(scene.lastsDays)
                    ELSE IF k = "hours" THEN Val(scene.lastsHours)
                    ELSE Val(scene.lastsMinutes)]

\* a get_timestamp that gives a scene without a date the timestamp of a new
\* event
GetTimestampOfNewEvent(scene, timestampMax) ==
    IF IsSet(scene.date)
    THEN Ts(Val(scene.date), IF IsSet(scene.time) THEN Val(scene.time) ELSE 0)
    ELSE DATE_LIMIT

\* get_timestamp, given _timestampMax after its increment
GetTimestamp(scene, timestampMax) ==
    IF IsSet(scene.date)
    THEN Ts(Val(scene.date), IF IsSet(scene.time) THEN Val(scene.time) ELSE 0)
    ELSE timestampMax

Rel(role, entity) == [role |-> role, entity |-> entity]

\* list.remove(x): the list without the first occurrence of x
RemoveFirst(lst, x) ==
    IF ~InList(x, lst) THEN lst
    ELSE LET k == CHOOSE i \in DOMAIN lst :
                    lst[i] = x /\ \A j \in 1..(i - 1) : lst[j] # x
         IN SubSeq(lst, 1, k - 1) \o SubSeq(lst, k + 1, Len(lst))

AppendNew(lst, x) == IF InList(x, lst) THEN lst ELSE Append(lst, x)

\* "Assign events to arcs."
RECURSIVE AssignArcs(_, _, _)
AssignArcs(rels, arcs, sceneArcs) ==
    IF arcs = <<>> THEN rels
    ELSE LET r == Rel(RoleStoryline, Val(Head(arcs).guid)) IN
         AssignArcs(IF InList(Head(arcs).id, sceneArcs) THEN AppendNew(rels, r)
                    ELSE RemoveFirst(rels, r),
                    Tail(arcs), sceneArcs)

\* "Update characters, locations, and items." and the arc assignments
EventRelationships(evt, scene, obj, narrativeGuid, arcs) ==
    LET kept == SelectSeq(evt.relationships,
                    LAMBDA r : r.role \notin {RoleCharacter, RoleLocation, RoleItem})
        refs(lst, guidById, role) ==
            IF Truthy(lst)
            THEN [i \in DOMAIN Val(lst) |-> Rel(role, Get(guidById, Val(lst)[i]).guid)]
            ELSE <<>>
        newRel == kept \o refs(scene.characters, obj.characterGuidById, RoleCharacter)
                       \o refs(scene.locations, obj.locationGuidById, RoleLocation)
                       \o refs(scene.items, obj.itemGuidById, RoleItem)
        narrativeArc == Rel(RoleArc, narrativeGuid)
    IN IF IsTrue(scene.isNotesScene) THEN RemoveFirst(newRel, narrativeArc)
       ELSE AssignArcs(AppendNew(newRel, narrativeArc), arcs,
                       IF Truthy(scene.arcs) THEN SplitArcs(scene.arcs) ELSE <<>>)

\* "Add missing arcs.": acc = [arcGuids, entities]
RECURSIVE AddMissingArcs(_, _)
AddMissingArcs(todo, acc) ==
    IF todo = <<>> THEN acc
    ELSE LET a == Head(todo)
             guid == get_uid(<<"entity", a.id, "ArcGuid">>)
         IN IF a.guid = None
            THEN AddMissingArcs(Tail(todo),
                    [arcGuids |-> Put(acc.arcGuids, [id |-> a.id, guid |-> Some(guid)]),
                     entities |-> Append(acc.entities,
                                    [entityType |-> TypeArc, name |-> a.id,
                                     guid |-> guid])])
            ELSE AddMissingArcs(Tail(todo), acc)

\* a write that recalculates date and span of every event, whatever its
\* stored timestamp
WriteEventAlways(evt, scene, obj, narrativeGuid, arcs, tsMax) ==
    LET tsMax1 == TsSucc(tsMax)
    IN [tsMax |-> tsMax1,
        evt |-> [evt EXCEPT
            !.rangeValue = Some([timestamp |-> GetTimestamp(scene, tsMax1),
                                 span |-> GetSpan(scene)]),
            !.desc = IF @ # None /\ Truthy(scene.desc) THEN scene.desc ELSE @,
            !.notes = IF @ # None /\ Truthy(scene.sceneNotes) THEN scene.sceneNotes ELSE @,
            !.tags = IF Truthy(scene.tags) THEN Val(scene.tags) ELSE @,
            !.relationships =
                EventRelationships(evt, scene, obj, narrativeGuid, arcs)]]

\* one event updated from its scene ("Set event date/time/span." to
\* "Assign events to arcs."); tsMax is _timestampMax before the event
WriteEvent(evt, scene, obj, narrativeGuid, arcs, tsMax) ==
    LET rv == Val(evt.rangeValue)
        recalc == TsLeq(DATE_LIMIT, rv.timestamp)
        tsMax1 == IF recalc THEN TsSucc(tsMax) ELSE tsMax
    IN [tsMax |-> tsMax1,
        evt |-> [evt EXCEPT
            !.rangeValue = IF recalc
                           THEN Some([timestamp |-> GetTimestamp(scene, tsMax1),
                                      span |-> GetSpan(scene)])
                           ELSE @,
            !.desc = IF @ # None /\ Truthy(scene.desc) THEN scene.desc ELSE @,
            !.notes = IF @ # None /\ Truthy(scene.sceneNotes) THEN scene.sceneNotes ELSE @,
            !.tags = IF Truthy(scene.tags) THEN Val(scene.tags) ELSE @,
            !.relationships =
                EventRelationships(evt, scene, obj, narrativeGuid, arcs)]]

\* evt['rangeValues'][0] raises IndexError, self.scenes[scId] KeyError
WriteEventRaises(evt, i, obj) ==
    evt.rangeValue = None \/ ~HasKey(obj.scenes, i)

\* "Update events from scenes.": acc = [events, tsMax, raised]
RECURSIVE WriteEvents(_, _, _, _, _, _)
WriteEvents(events, i, obj, narrativeGuid, arcs, acc) ==
    IF i > Len(events) \/ acc.raised THEN acc
    ELSE IF WriteEventRaises(events[i], i, obj)
         THEN [acc EXCEPT !.raised = TRUE]
    ELSE LET w == WriteEvent(events[i], Get(obj.scenes, i), obj, narrativeGuid,
                             arcs, acc.tsMax)
         IN WriteEvents(events, i + 1, obj, narrativeGuid, arcs,
                [events |-> Append(acc.events, w.evt), tsMax |-> w.tsMax,
                 raised |-> FALSE])

\* a write that takes the deletion marks for scene ids
DeleteTrashByScId(events, trashEvents) ==
    LET keep == SelectSeq([i \in DOMAIN events |-> i],
                          LAMBDA i : ~InList(i, trashEvents))
    IN [k \in DOMAIN keep |-> events[keep[k]]]

\* "Delete 'Trash' scenes."
DeleteTrash(events, trashEvents) ==
    LET keep == SelectSeq([i \in DOMAIN events |-> i],
                          LAMBDA i : ~InList(i - 1, trashEvents))
    IN [k \in DOMAIN keep |-> events[keep[k]]]

\* JsonTimeline2.write: the JSON part saved to the file, or raised
JsonWrite(obj) ==
    LET json == Val(obj.jsonData)
        narrativeGuid == IF obj.narrativeGuid = None
                         THEN get_uid(<<"entityNarrativeGuid">>)
                         ELSE Val(obj.narrativeGuid)
        entities1 == IF obj.narrativeGuid = None
                     THEN Append(json.entities,
                            [entityType |-> TypeArc, name |-> EntityNarrative,
                             guid |-> narrativeGuid])
                     ELSE json.entities
        withArcs == AddMissingArcs(obj.arcGuidsByName,
                        [arcGuids |-> obj.arcGuidsByName, entities |-> entities1])
        w == WriteEvents(json.events, 1, obj, narrativeGuid, withArcs.arcGuids,
                [events |-> <<>>, tsMax |-> obj.timestampMax, raised |-> FALSE])
    IN [raised |-> w.raised,
        file |-> [json EXCEPT !.entities = withArcs.entities,
                              !.events = DeleteTrash(w.events, obj.trashEvents)],
        message |-> Ok("File written")]

----------------------------------------------------------------------------
(* The documents the runs start from *)

MaxEvents == 2
MaxScenes == 2
MaxRuns == 2
MaxEdits == 1

\* The events a timeline file may hold. All are dated by the range property
\* of the template; <<"g", "Narrative">> is the guid of the Narrative arc and
\* <<"g", "Alice">> the guid of the character Alice, <<"g", "Harbour">> the
\* guid of the location Harbour.
EventCatalog ==
    <<  \* a narrative event with a participant, lasting 1 month and 25 hours
        [guid |-> <<"g", "e1">>, title |-> "Storm",
         desc |-> Some(<<"d1">>), notes |-> Some(<<"n1">>), tags |-> <<"t1">>,
         rangeValue |-> Some([timestamp |-> Ts(Ordinal(1889, 4, 2), 3600),
                              span |-> [months |-> 1, hours |-> 25]]),
         relationships |-> <<Rel(RoleArc, <<"g", "Narrative">>),
                             Rel(RoleCharacter, <<"g", "Alice">>)>>],
        \* a narrative event at 0100-01-01 00:00:00
        [guid |-> <<"g", "e2">>, title |-> "Arrival",
         desc |-> Some(<<"d2">>), notes |-> Some(<<"n2">>), tags |-> <<"t2">>,
         rangeValue |-> Some([timestamp |-> DATE_LIMIT, span |-> <<>>]),
         relationships |-> <<Rel(RoleArc, <<"g", "Narrative">>)>>],
        \* a second event titled "Storm", at 0099-12-31 23:59:59, in no arc,
        \* with a participant
        [guid |-> <<"g", "e3">>, title |-> "Storm",
         desc |-> None, notes |-> Some(<<"n3">>), tags |-> <<>>,
         rangeValue |-> Some([timestamp |-> Ts(DateLimitDays - 1, 86399),
                              span |-> [days |-> 1]]),
         relationships |-> <<Rel(RoleCharacter, <<"g", "Alice">>),
                             Rel(RoleLocation, <<"g", "Harbour">>)>>],
        \* a narrative event of two days, at a location
        [guid |-> <<"g", "e4">>, title |-> "Legend",
         desc |-> Some(<<"d4">>), notes |-> None, tags |-> <<>>,
         rangeValue |-> Some([timestamp |-> Ts(Ordinal(1889, 4, 3), 0),
                              span |-> [days |-> 2]]),
         relationships |-> <<Rel(RoleArc, <<"g", "Narrative">>),
                             Rel(RoleLocation, <<"g", "Harbour">>)>>] >>

\* The scenes a project file may hold
SceneCatalog ==
    <<  \* a scene with a specific date, a duration in days only and a character
        [NewXmlScene(1) EXCEPT
            !.title = "Storm", !.desc = Some(<<"d0">>), !.sceneContent = Some(<<"c1">>),
            !.status = Some(2), !.notes = Some(<<"n0">>), !.tags = Some(<<"t0">>),
            !.specificDateTime = Some([date |-> Ordinal(1889, 4, 3), time |-> 0]),
            !.lastsDays = Some(1), !.characters = <<1>>],
        \* a scene with day/hour/minute, a character and an arc
        [NewXmlScene(2) EXCEPT
            !.title = "Arrival", !.sceneContent = Some(<<"c2">>), !.status = Some(1),
            !.day = Some(1), !.hour = Some(2), !.minute = Some(3),
            !.characters = <<1>>, !.arcs = Some(<<"A">>)],
        \* a second scene titled "Storm", without any date
        [NewXmlScene(3) EXCEPT
            !.title = "Storm", !.sceneContent = Some(<<"c3">>), !.status = Some(1)],
        \* an unused scene
        [NewXmlScene(4) EXCEPT
            !.title = "Legend", !.sceneContent = Some(<<"c4">>), !.status = Some(3),
            !.unused = TRUE, !.characters = <<1>>] >>

\* the members of a catalog picked by the set of indices I, in catalog order
Pick(catalog, I) ==
    LET idx == SelectSeq([i \in DOMAIN catalog |-> i], LAMBDA i : i \in I)
    IN [k \in DOMAIN idx |-> catalog[idx[k]]]

Choices(catalog, n) == {I \in SUBSET DOMAIN catalog : Cardinality(I) <= n}

AeonDocument(events) ==
    [era |-> TRUE, template |-> FullTemplate,
     entities |-> <<[entityType |-> TypeArc, name |-> EntityNarrative,
                     guid |-> <<"g", "Narrative">>],
                    [entityType |-> TypeCharacter, name |-> "Alice",
                     guid |-> <<"g", "Alice">>],
                    [entityType |-> TypeLocation, name |-> "Harbour",
                     guid |-> <<"g", "Harbour">>]>>,
     events |-> events]

\* a project file; trash tells whether its last scene is in the trash bin, a
\* chapter of its own that is unused and has the field IsTrash
YwDocument(scenes, characters, trash) ==
    [scenes |-> scenes,
     chapters |->
        <<[NewXmlChapter(1) EXCEPT
              !.title = "Chapter 1", !.chType = Some(0),
              !.scenes = IF trash THEN SubSeq(Keys(scenes), 1, Len(scenes) - 1)
                         ELSE Keys(scenes)]>>
        \o (IF trash
            THEN <<[NewXmlChapter(2) EXCEPT
                       !.title = "Trash", !.chType = Some(0), !.unused = TRUE,
                       !.isTrash = Some(TRUE),
                       !.scenes = <<scenes[Len(scenes)].id>>]>>
            ELSE <<>>),
     characters |-> characters, locations |-> <<>>, items |-> <<>>]

CharacterLists ==
    {<<NewElement(1, "Alice")>>,
     <<NewElement(1, "Bob")>>,
     <<NewElement(1, "Alice"), NewElement(2, "Alice")>>}

Init ==
    /\ \E I \in Choices(EventCatalog, MaxEvents) :
          aeonFile = AeonDocument(Pick(EventCatalog, I))
    /\ \E I \in Choices(SceneCatalog, MaxScenes), crs \in CharacterLists,
           trash \in BOOLEAN :
          /\ trash => (I # {} /\ crs = <<NewElement(1, "Alice")>>)
          /\ ywFile = YwDocument(Pick(SceneCatalog, I), crs, trash)
    /\ aeonPath = "file"
    /\ aeonBak = None
    /\ ywPath = "file"
    /\ ywBak = None
    /\ saving = "no"
    /\ ywLock = FALSE
    /\ dir = "none"
    /\ scenes_only \in BOOLEAN
    /\ pc = "idle"
    /\ source = None
    /\ target = None
    /\ message = NoMessage
    /\ calls = <<>>
    /\ afterRead = None
    /\ newFile = None
    /\ runs = 0
    /\ edits = 0
    /\ hist = <<>>
    /\ fnArg = None
    /\ fnRet = None

----------------------------------------------------------------------------
(* Aeon2Converter.run and YwCnv.convert, one step at a time *)

\* a convert that sets the message of the cancellation and goes on
ConvertStartGoingOn(d, confirm) ==
    /\ pc = "idle"
    /\ runs < MaxRuns
    /\ dir' = d
    /\ runs' = runs + 1
    /\ source' = IF d = "a2y" THEN NewTimeline ELSE NewYw7File
    /\ target' = IF d = "a2y" THEN NewYw7File ELSE NewTimeline
    /\ calls' = <<>>
    /\ afterRead' = None
    /\ newFile' = None
    /\ pc' = "read"
    /\ message' = IF confirm THEN NoMessage ELSE Err("Action canceled by user", "")
    /\ UNCHANGED <<disk, aeonFile, ywFile, ywLock, scenes_only, edits, hist>>
    /\ UNCHANGED <<fnArg, fnRet>>

\* Aeon2Converter.run up to the checks of YwCnv.convert. d is the direction
\* the source file's extension selects, confirm the user's answer to
\* "Overwrite existing file?"; both files exist.
ConvertStart(d, confirm) ==
    /\ pc = "idle"
    /\ runs < MaxRuns
    /\ dir' = d
    /\ runs' = runs + 1
    /\ source' = IF d = "a2y" THEN NewTimeline ELSE NewYw7File
    /\ target' = IF d = "a2y" THEN NewYw7File ELSE NewTimeline
    /\ calls' = <<>>
    /\ afterRead' = None
    /\ newFile' = None
    /\ IF confirm
       THEN pc' = "read" /\ message' = NoMessage
       ELSE pc' = "done" /\ message' = Err("Action canceled by user", "")
    /\ UNCHANGED <<disk, aeonFile, ywFile, ywLock, scenes_only, edits, hist>>
    /\ UNCHANGED <<fnArg, fnRet>>

\* a convert that ignores the error messages of the calls
AfterIgnoringErrors(r, next) == IF r.raised THEN "crashed" ELSE next

\* where convert goes after a call that returned or raised
After(r, next) == IF r.raised THEN "crashed" ELSE IF r.message.error THEN "done" ELSE next

SourceReturns(r) ==
    /\ source' = r.obj
    /\ message' = r.message
    /\ pc' = After(r, "merge")

\* Yw7File.read of the file at the path: ET.parse fails on a file that is
\* not a whole XML document, and reads the tree as ElementTree wrote it like
\* the post-processed one
YwReadPath(path, xml, locked) ==
    IF ~locked /\ path = "partial"
    THEN Result(NewYw7File, Err("Can not process file", ""))
    ELSE YwRead(xml, locked)

\* message = source.read()
SourceRead ==
    /\ pc = "read"
    /\ SourceReturns(IF dir = "a2y" THEN JsonRead(aeonFile)
                     ELSE YwReadPath(ywPath, ywFile, ywLock))
    /\ calls' = Append(calls, "source.read")
    /\ UNCHANGED <<disk, aeonFile, ywFile, ywLock, dir, scenes_only, target, afterRead,
                   newFile, runs, edits, hist>>
    /\ UNCHANGED <<fnArg, fnRet>>

MergeReturns(read, r) ==
    /\ target' = r.obj
    /\ afterRead' = Some(read.obj)
    /\ message' = r.message
    /\ pc' = After(r, "write")

\* merge starts with self.read() of the target
MergeReads(read) ==
    MergeReturns(read, IF dir = "a2y" THEN YwTargetMerge(read, source, scenes_only)
                       ELSE JsonMerge(read, source, scenes_only))

\* message = target.merge(source)
TargetMerge ==
    /\ pc = "merge"
    /\ MergeReads(IF dir = "a2y" THEN YwReadPath(ywPath, ywFile, ywLock)
                  ELSE JsonRead(aeonFile))
    /\ calls' = Append(calls, "target.merge")
    /\ UNCHANGED <<disk, aeonFile, ywFile, ywLock, dir, scenes_only, source, newFile,
                   runs, edits, hist>>
    /\ UNCHANGED <<fnArg, fnRet>>

YwWritten(w) ==
    /\ ywFile' = w.file
    /\ message' = w.message
    /\ pc' = "done"
    /\ UNCHANGED aeonFile

JsonWritten(w) ==
    /\ aeonFile' = IF w.raised THEN aeonFile ELSE w.file
    /\ message' = IF w.raised THEN Err("exception in JsonTimeline2.write", "")
                  ELSE w.message
    /\ pc' = IF w.raised THEN "crashed" ELSE "done"
    /\ UNCHANGED ywFile

\* os.replace(filePath, f'{filePath}.bak'): the file is moved to the backup
BackedUp(doc, form) == Some([doc |-> doc, form |-> form])

\* Yw7File.write up to the backup of _write_element_tree: the lock is looked
\* at first, and a locked project is left with the error message
YwWriteBegins(w) ==
    /\ IF w.message.error
       THEN YwWritten(w) /\ UNCHANGED <<ywPath, ywBak, saving>>
       ELSE /\ ywBak' = BackedUp(ywFile, ywPath)
            /\ ywPath' = "absent"
            /\ saving' = "backedUp"
            /\ UNCHANGED <<aeonFile, ywFile, message, pc>>
    /\ UNCHANGED <<aeonPath, aeonBak>>

\* JsonTimeline2.write up to the backup of save_timeline: an exception while
\* the JSON data is updated ends the run before the file is touched
JsonWriteBegins(w) ==
    /\ IF w.raised
       THEN JsonWritten(w) /\ UNCHANGED <<aeonPath, aeonBak, saving>>
       ELSE /\ aeonBak' = BackedUp(aeonFile, aeonPath)
            /\ aeonPath' = "absent"
            /\ saving' = "backedUp"
            /\ UNCHANGED <<aeonFile, ywFile, message, pc>>
    /\ UNCHANGED <<ywPath, ywBak>>

\* return target.write(), up to the move of the existing file to its backup
TargetWrite ==
    /\ pc = "write"
    /\ saving = "no"
    /\ calls' = Append(calls, "target.write")
    /\ IF dir = "a2y" THEN YwWriteBegins(YwWrite(target, ywFile, ywLock))
       ELSE JsonWriteBegins(JsonWrite(target))
    /\ UNCHANGED <<ywLock, dir, scenes_only, source, target, afterRead, newFile,
                   runs, edits, hist>>
    /\ UNCHANGED <<fnArg, fnRet>>

\* the except branch of a write: the backup is moved back and the error
\* message returned
Restored(bak, text) ==
    /\ saving' = "no"
    /\ message' = Err(text, "")
    /\ pc' = "done"
    /\ IF dir = "a2y"
       THEN ywPath' = Val(bak).form /\ ywBak' = None /\ UNCHANGED <<aeonPath, aeonBak>>
       ELSE aeonPath' = Val(bak).form /\ aeonBak' = None /\ UNCHANGED <<ywPath, ywBak>>
    /\ UNCHANGED <<aeonFile, ywFile>>

\* _write_element_tree after the backup: self.tree.write(...) in the try
\* block; ok is whether it returns without an exception
WriteElementTree(ok) ==
    /\ pc = "write"
    /\ dir = "a2y"
    /\ saving = "backedUp"
    /\ IF ok
       THEN /\ ywPath' = "raw"
            /\ saving' = "written"
            /\ UNCHANGED <<aeonFile, ywFile, aeonPath, aeonBak, ywBak, message, pc>>
       ELSE Restored(ywBak, "Cannot write file")
    /\ UNCHANGED <<ywLock, dir, scenes_only, source, target, calls, afterRead,
                   newFile, runs, edits, hist>>
    /\ UNCHANGED <<fnArg, fnRet>>

\* what _postprocess_xml_file leaves: the post-processed document with the
\* message of success ("ok"), the tree as ElementTree wrote it when the file
\* is not read ("read"), and a file cut short when the text is not written to
\* its end ("write"); no branch moves the backup back
Postprocessed(outcome, w) ==
    /\ ywFile' = IF outcome = "write" THEN ywFile ELSE w.file
    /\ ywPath' = CASE outcome = "ok" -> "file"
                   [] outcome = "read" -> "raw"
                   [] outcome = "write" -> "partial"
    /\ message' = CASE outcome = "ok" -> w.message
                    [] outcome = "read" -> Err("exception in _postprocess_xml_file", "")
                    [] outcome = "write" -> Err("Cannot write file", "")
    /\ pc' = IF outcome = "read" THEN "crashed" ELSE "done"

\* return self._postprocess_xml_file(self.filePath)
PostprocessXmlFile(outcome) ==
    /\ pc = "write"
    /\ dir = "a2y"
    /\ saving = "written"
    /\ saving' = "no"
    /\ Postprocessed(outcome, YwWrite(target, ywFile, FALSE))
    /\ UNCHANGED <<aeonFile, aeonPath, aeonBak, ywBak, ywLock, dir, scenes_only,
                   source, target, calls, afterRead, newFile, runs, edits, hist>>
    /\ UNCHANGED <<fnArg, fnRet>>

\* save_timeline after the backup: zipfile.ZipFile(filePath, 'w', ...) creates
\* the archive at the path of the timeline itself
SaveTimelineOpens ==
    /\ pc = "write"
    /\ dir = "y2a"
    /\ saving = "backedUp"
    /\ aeonPath' = "partial"
    /\ saving' = "opened"
    /\ UNCHANGED <<aeonFile, aeonBak, ywFile, ywPath, ywBak, ywLock, dir,
                   scenes_only, pc, source, target, message, calls, afterRead,
                   newFile, runs, edits, hist>>
    /\ UNCHANGED <<fnArg, fnRet>>

\* f.writestr('timeline.json', ...) and the end of the with block; ok is
\* whether they return without an exception
SaveTimelineWrites(ok) ==
    /\ pc = "write"
    /\ dir = "y2a"
    /\ saving = "opened"
    /\ IF ok
       THEN /\ JsonWritten(JsonWrite(target))
            /\ aeonPath' = "file"
            /\ saving' = "no"
            /\ UNCHANGED <<aeonBak, ywPath, ywBak>>
       ELSE Restored(aeonBak, "Cannot write")
    /\ UNCHANGED <<ywLock, dir, scenes_only, source, target, calls, afterRead,
                   newFile, runs, edits, hist>>
    /\ UNCHANGED <<fnArg, fnRet>>

\* the process is killed while target.write is at work on the file; nothing
\* of the program runs after that
Killed ==
    /\ pc = "write"
    /\ saving # "no"
    /\ pc' = "killed"
    /\ UNCHANGED <<disk, aeonFile, ywFile, ywLock, dir, scenes_only, source, target,
                   message, calls, afterRead, newFile, runs, edits, hist>>
    /\ UNCHANGED <<fnArg, fnRet>>

Entry(crashed) ==
    [dir |-> dir, scenes_only |-> scenes_only, error |-> message.error,
     crashed |-> crashed, calls |-> calls, aeon |-> aeonFile, yw |-> ywFile,
     edits |-> edits]

\* export_from_yw / import_to_yw after convert has returned
Report ==
    /\ pc = "done"
    /\ newFile' = IF message.error THEN None ELSE Some(dir)
    /\ hist' = Append(hist, Entry(FALSE))
    /\ pc' = "idle"
    /\ source' = None
    /\ target' = None
    /\ afterRead' = None
    /\ UNCHANGED <<disk, aeonFile, ywFile, ywLock, dir, scenes_only, message, calls,
                   runs, edits>>
    /\ UNCHANGED <<fnArg, fnRet>>

\* an exception that nothing catches ends the program
Abort ==
    /\ pc = "crashed"
    /\ hist' = Append(hist, Entry(TRUE))
    /\ pc' = "idle"
    /\ source' = None
    /\ target' = None
    /\ afterRead' = None
    /\ UNCHANGED <<disk, aeonFile, ywFile, ywLock, dir, scenes_only, message, calls,
                   newFile, runs, edits>>
    /\ UNCHANGED <<fnArg, fnRet>>

(* What the user does to the files between the runs *)

\* the user deletes an event in Aeon Timeline
DeleteEvent(i) ==
    /\ pc = "idle"
    /\ edits < MaxEdits
    /\ i \in DOMAIN aeonFile.events
    /\ aeonFile' = [aeonFile EXCEPT !.events =
                       SubSeq(@, 1, i - 1) \o SubSeq(@, i + 1, Len(@))]
    /\ edits' = edits + 1
    /\ UNCHANGED <<disk, ywFile, ywLock, dir, scenes_only, pc, source, target, message,
                   calls, afterRead, newFile, runs, hist>>
    /\ UNCHANGED <<fnArg, fnRet>>

\* the user adds an event in Aeon Timeline
AddEvent(e) ==
    /\ pc = "idle"
    /\ edits < MaxEdits
    /\ Len(aeonFile.events) < MaxEvents
    /\ \A i \in DOMAIN aeonFile.events : aeonFile.events[i].guid # e.guid
    /\ aeonFile' = [aeonFile EXCEPT !.events = Append(@, e)]
    /\ edits' = edits + 1
    /\ UNCHANGED <<disk, ywFile, ywLock, dir, scenes_only, pc, source, target, message,
                   calls, afterRead, newFile, runs, hist>>
    /\ UNCHANGED <<fnArg, fnRet>>

\* the user opens the project in yWriter, which places the lock file
OpenYWriter ==
    /\ ~ywLock
    /\ edits < MaxEdits
    /\ ywLock' = TRUE
    /\ edits' = edits + 1
    /\ UNCHANGED <<disk, aeonFile, ywFile, dir, scenes_only, pc, source, target, message,
                   calls, afterRead, newFile, runs, hist>>
    /\ UNCHANGED <<fnArg, fnRet>>

Next ==
    \/ \E d \in {"a2y", "y2a"}, confirm \in BOOLEAN : ConvertStart(d, confirm)
    \/ SourceRead
    \/ TargetMerge
    \/ TargetWrite
    \/ \E ok \in BOOLEAN : WriteElementTree(ok)
    \/ \E outcome \in {"ok", "read", "write"} : PostprocessXmlFile(outcome)
    \/ SaveTimelineOpens
    \/ \E ok \in BOOLEAN : SaveTimelineWrites(ok)
    \/ Killed
    \/ Report
    \/ Abort
    \/ \E i \in 1..MaxEvents : DeleteEvent(i)
    \/ \E i \in DOMAIN EventCatalog : AddEvent(EventCatalog[i])
    \/ OpenYWriter

Spec == Init /\ [][Next]_vars

(* JsonTimeline2.read on the templates a timeline may have *)

\* the templates of a timeline file: any of the types, roles and properties
\* may be missing, a role being declared in its type
Templates ==
    {tpl \in SUBSET FullTemplate :
        \A role \in TemplateRoles \cap tpl : TypeOfRole(role) \in tpl}

\* a timeline without entities and events
TemplateDocument(tpl, era) ==
    [era |-> era, template |-> tpl, entities |-> <<>>, events |-> <<>>]

InitTemplate ==
    /\ \E tpl \in Templates, era \in BOOLEAN : aeonFile = TemplateDocument(tpl, era)
    /\ ywFile = YwDocument(<<>>, <<NewElement(1, "Alice")>>, FALSE)
    /\ aeonPath = "file"
    /\ aeonBak = None
    /\ ywPath = "file"
    /\ ywBak = None
    /\ saving = "no"
    /\ ywLock = FALSE
    /\ dir = "none"
    /\ scenes_only = TRUE
    /\ pc = "idle"
    /\ source = None
    /\ target = None
    /\ message = NoMessage
    /\ calls = <<>>
    /\ afterRead = None
    /\ newFile = None
    /\ runs = 0
    /\ edits = 0
    /\ hist = <<>>
    /\ fnArg = None
    /\ fnRet = None

\* the program is started on the timeline, and convert goes up to source.read()
NextTemplate ==
    \/ \E confirm \in BOOLEAN : ConvertStart("a2y", confirm)
    \/ SourceRead
    \/ Report

SpecTemplate == InitTemplate /\ [][NextTemplate]_vars

----------------------------------------------------------------------------
(* export_from_yw, import_to_yw and create_yw7 called one after the other on
   one converter object *)

InitConverter ==
    /\ aeonFile = AeonDocument(Pick(EventCatalog, {2}))
    /\ ywFile = YwDocument(Pick(SceneCatalog, {2}), <<NewElement(1, "Alice")>>, FALSE)
    /\ aeonPath = "file"
    /\ aeonBak = None
    /\ ywPath = "file"
    /\ ywBak = None
    /\ saving = "no"
    /\ ywLock = FALSE
    /\ dir = "none"
    /\ scenes_only \in BOOLEAN
    /\ pc = "idle"
    /\ source = None
    /\ target = None
    /\ message = NoMessage
    /\ calls = <<>>
    /\ afterRead = None
    /\ newFile = None
    /\ runs = 0
    /\ edits = 0
    /\ hist = <<>>
    /\ fnArg = None
    /\ fnRet = None

\* export_from_yw (d = "y2a") or import_to_yw (d = "a2y") up to the checks of
\* convert; newFile is what the call before has left
ConverterCall(d, confirm) ==
    /\ pc = "idle"
    /\ runs < MaxRuns
    /\ dir' = d
    /\ runs' = runs + 1
    /\ source' = IF d = "a2y" THEN NewTimeline ELSE NewYw7File
    /\ target' = IF d = "a2y" THEN NewYw7File ELSE NewTimeline
    /\ calls' = <<>>
    /\ afterRead' = None
    /\ IF confirm
       THEN pc' = "read" /\ message' = NoMessage
       ELSE pc' = "done" /\ message' = Err("Action canceled by user", "")
    /\ UNCHANGED <<disk, aeonFile, ywFile, ywLock, scenes_only, newFile, edits, hist,
                   fnArg, fnRet>>

\* create_yw7 with the timeline as source: the project file exists, the
\* message is passed to the ui and nothing else is done
CreateYw7 ==
    /\ pc = "idle"
    /\ runs < MaxRuns
    /\ dir' = "a2y"
    /\ runs' = runs + 1
    /\ calls' = <<>>
    /\ message' = Err("File already exists", "")
    /\ UNCHANGED <<disk, aeonFile, ywFile, ywLock, scenes_only, pc, source, target,
                   afterRead, newFile, edits, hist, fnArg, fnRet>>

NextConverter ==
    \/ \E d \in {"a2y", "y2a"}, confirm \in BOOLEAN : ConverterCall(d, confirm)
    \/ CreateYw7
    \/ SourceRead
    \/ TargetMerge
    \/ TargetWrite
    \/ \E ok \in BOOLEAN : WriteElementTree(ok)
    \/ \E outcome \in {"ok", "write"} : PostprocessXmlFile(outcome)
    \/ SaveTimelineOpens
    \/ \E ok \in BOOLEAN : SaveTimelineWrites(ok)
    \/ Report
    \/ OpenYWriter

SpecConverter == InitConverter /\ [][NextConverter]_vars

----------------------------------------------------------------------------
(* Novel-to-timeline runs on projects with characters, locations and items *)

\* the characters, the locations and the items a project may have; the
\* timeline has the character Alice and the location Harbour
ProjectCharacters == {<<>>, <<NewElement(1, "Alice")>>, <<NewElement(1, "Bob")>>}
ProjectLocations == {<<>>, <<NewElement(1, "Harbour")>>, <<NewElement(1, "Bob")>>}
ProjectItems == {<<>>, <<NewElement(1, "Lamp")>>, <<NewElement(1, "Bob")>>}

\* the ids of the elements, as a scene refers to all of them
AllOf(elements) == [i \in DOMAIN elements |-> elements[i].id]

\* a project of the one scene "Arrival", to which every character, location
\* and item of the project is assigned
EntityProject(crs, lcs, its) ==
    LET scene == [SceneCatalog[2] EXCEPT
                     !.characters = AllOf(crs), !.locations = AllOf(lcs),
                     !.items = AllOf(its)]
    IN [YwDocument(<<scene>>, crs, FALSE) EXCEPT !.locations = lcs, !.items = its]

InitEntities ==
    /\ \E I \in Choices(EventCatalog, 1) :
          aeonFile = AeonDocument(Pick(EventCatalog, I))
    /\ \E crs \in ProjectCharacters, lcs \in ProjectLocations, its \in ProjectItems :
          ywFile = EntityProject(crs, lcs, its)
    /\ aeonPath = "file"
    /\ aeonBak = None
    /\ ywPath = "file"
    /\ ywBak = None
    /\ saving = "no"
    /\ ywLock = FALSE
    /\ dir = "none"
    /\ scenes_only \in BOOLEAN
    /\ pc = "idle"
    /\ source = None
    /\ target = None
    /\ message = NoMessage
    /\ calls = <<>>
    /\ afterRead = None
    /\ newFile = None
    /\ runs = 0
    /\ edits = 0
    /\ hist = <<>>
    /\ fnArg = None
    /\ fnRet = None

NextEntities ==
    \/ \E confirm \in BOOLEAN : ConvertStart("y2a", confirm)
    \/ SourceRead
    \/ TargetMerge
    \/ TargetWrite
    \/ SaveTimelineOpens
    \/ \E ok \in BOOLEAN : SaveTimelineWrites(ok)
    \/ Report

SpecEntities == InitEntities /\ [][NextEntities]_vars

----------------------------------------------------------------------------
(* get_sub_guid, get_uid and get_moon_phase, called on their own *)

guidChars == <<"A", "B", "C", "D", "E", "F", "0", "1", "2", "3", "4", "5", "6",
               "7", "8", "9">>

\* keyInt > 0, for a key given by its hexadecimal digits, the first the most
\* significant
Positive(digits) == \E i \in DOMAIN digits : digits[i] # 0

\* the while loop of get_sub_guid: keyInt % 16 is the last digit, keyInt //= 16
\* drops it
RECURSIVE SubGuidLoop(_, _, _)
SubGuidLoop(digits, size, guid) ==
    IF Len(guid) < size /\ Positive(digits)
    THEN SubGuidLoop(SubSeq(digits, 1, Len(digits) - 1), size,
                     Append(guid, guidChars[digits[Len(digits)] + 1]))
    ELSE guid

\* get_sub_guid(key, size); int.from_bytes(key, byteorder='big') is the number
\* with the hexadecimal digits of the bytes, two for a byte
get_sub_guid(key, size) == SubGuidLoop(key, size, <<>>)

\* sizes = [8, 4, 4, 4, 12]
sizes == <<8, 4, 4, 4, 12>>

\* the five groups of get_uid that '-'.join puts together; keys[i] is
\* pbkdf2_hmac('sha1', text, salts[i], 1), 20 bytes
UidGroups(keys) == [i \in 1..5 |-> get_sub_guid(keys[i], sizes[i])]

\* the hexadecimal digits of a SHA-1 value
DigestDigits == 40

\* a key of z zero digits followed by the digit fill throughout
KeyFilled(z, fill) == [i \in 1..DigestDigits |-> IF i <= z THEN 0 ELSE fill]

\* a key whose only digit that is not zero is the one behind z zero digits
KeySingle(z, digit) == [i \in 1..DigestDigits |-> IF i = z + 1 THEN digit ELSE 0]

\* the values of pbkdf2_hmac the model draws from: any number of leading zero
\* digits, and zero digits at the end
DigestValues ==
    {KeyFilled(z, fill) : z \in 0..DigestDigits, fill \in {1, 10, 15}}
    \cup {KeySingle(z, digit) : z \in 0..(DigestDigits - 1), digit \in {6, 15}}

\* the character of a decimal digit
DecimalChars == <<"0", "1", "2", "3", "4", "5", "6", "7", "8", "9">>

IsDecimal(text) ==
    /\ text # <<>>
    /\ \A i \in DOMAIN text : \E n \in DOMAIN DecimalChars : DecimalChars[n] = text[i]

\* int(text) for a text of decimal digits
RECURSIVE IntOf(_)
IntOf(text) ==
    IF text = <<>> THEN 0
    ELSE 10 * IntOf(SubSeq(text, 1, Len(text) - 1))
         + (CHOOSE n \in 0..9 : DecimalChars[n + 1] = text[Len(text)])

\* dateStr.split('-'): fields holds the fields that are complete, field the
\* characters of the one that is read
RECURSIVE SplitDate(_, _, _)
SplitDate(text, fields, field) ==
    IF text = <<>> THEN Append(fields, field)
    ELSE IF Head(text) = "-" THEN SplitDate(Tail(text), Append(fields, field), <<>>)
    ELSE SplitDate(Tail(text), fields, Append(field, Head(text)))

\* r after "r -= 19": (year % 100) % 19, less 19 when above 9
GoldenNumber(year) ==
    IF ((year % 100) % 19) > 9 THEN ((year % 100) % 19) - 19 ELSE (year % 100) % 19

\* ten times r before it is rounded: r is a float with one decimal after
\* "r -= 8.3"
MoonTenths(year, month, day) ==
    10 * (((GoldenNumber(year) * 11) % 30) + month + day
          + (IF month < 3 THEN 2 ELSE 0))
    - (IF year < 2000 THEN 40 ELSE 83)

\* math.floor(r + 0.5) % 30
MoonPhase(year, month, day) == ((MoonTenths(year, month, day) + 5) \div 10) % 30

\* the try block of get_moon_phase on the fields of the date
MoonPhaseOfFields(fields) ==
    IF Len(fields) = 3 /\ \A i \in 1..3 : IsDecimal(fields[i])
    THEN Some(MoonPhase(IntOf(fields[1]), IntOf(fields[2]), IntOf(fields[3])))
    ELSE None

\* get_moon_phase(dateStr): the phase day, None when the date is not read
get_moon_phase(dateStr) == MoonPhaseOfFields(SplitDate(dateStr, <<>>, <<>>))

\* '%04d-%02d-%02d' of a date
Decimal(n, width) ==
    [i \in 1..width |-> DecimalChars[((n \div (10 ^ (width - i))) % 10) + 1]]

DateStr(year, month, day) ==
    Decimal(year, 4) \o <<"-">> \o Decimal(month, 2) \o <<"-">> \o Decimal(day, 2)

\* the years the dates are drawn from
MoonYears == {1999, 2000, 2024}

\* the arguments of the calls: a date string, or the five values of
\* pbkdf2_hmac for a text, one of them drawn and the others without a zero
FunctionCalls ==
    {[fn |-> "get_moon_phase", dateStr |-> DateStr(y, m, d)] :
        y \in MoonYears, m \in 1..12, d \in 1..31}
    \cup {[fn |-> "get_moon_phase", dateStr |-> <<"2", "0", "2", "4">>]}
    \cup {[fn |-> "get_uid",
           keys |-> [j \in 1..5 |-> IF j = i THEN key ELSE KeyFilled(0, 11)]] :
               i \in 1..5, key \in DigestValues}

InitFunctions ==
    /\ fnArg \in FunctionCalls
    /\ fnRet = None
    /\ aeonFile = TemplateDocument(FullTemplate, TRUE)
    /\ ywFile = YwDocument(<<>>, <<NewElement(1, "Alice")>>, FALSE)
    /\ aeonPath = "file"
    /\ aeonBak = None
    /\ ywPath = "file"
    /\ ywBak = None
    /\ saving = "no"
    /\ ywLock = FALSE
    /\ dir = "none"
    /\ scenes_only = TRUE
    /\ pc = "idle"
    /\ source = None
    /\ target = None
    /\ message = NoMessage
    /\ calls = <<>>
    /\ afterRead = None
    /\ newFile = None
    /\ runs = 0
    /\ edits = 0
    /\ hist = <<>>

\* the converter does not run
Idle ==
    UNCHANGED <<aeonFile, aeonPath, aeonBak, ywFile, ywPath, ywBak, saving, ywLock,
                dir, scenes_only, pc, source, target, message, calls, afterRead,
                newFile, runs, edits, hist, fnArg>>

GetMoonPhase ==
    /\ fnArg.fn = "get_moon_phase"
    /\ fnRet = None
    /\ fnRet' = Some(get_moon_phase(fnArg.dateStr))
    /\ Idle

GetUid ==
    /\ fnArg.fn = "get_uid"
    /\ fnRet = None
    /\ fnRet' = Some(UidGroups(fnArg.keys))
    /\ Idle

NextFunctions == GetMoonPhase \/ GetUid

SpecFunctions == InitFunctions /\ [][NextFunctions]_vars

----------------------------------------------------------------------------
(* Properties *)

\* the calls of a conversion that runs to its end
Pipeline == <<"source.read", "target.merge", "target.write">>

\* C1: YwCnv.convert calls source.read, target.merge and target.write in this
\* order; a call is made only while no call has returned an error message,
\* and convert returns without an error only after target.write was called.
C1_PipelineOrder ==
    [][/\ (calls' # calls /\ calls' # <<>>) =>
            /\ Len(calls) < Len(Pipeline)
            /\ calls' = SubSeq(Pipeline, 1, Len(calls) + 1)
            /\ ~message.error
            /\ pc \notin {"done", "crashed"}
       /\ (pc' = "done" /\ pc # "done" /\ calls' # <<>>) =>
            \/ message'.error /\ message' # message
            \/ calls' = Pipeline]_vars

\* target.merge returned an error message: convert has ended with it and
\* target.write was not called
C1_Witness ==
    /\ pc = "done"
    /\ message.error
    /\ calls = <<"source.read", "target.merge">>

\* convert has ended with the error message target.merge returned
MergeFailed ==
    /\ pc = "done"
    /\ message.error
    /\ calls = <<"source.read", "target.merge">>

\* target.merge has returned without an error message
MergeSucceeded ==
    /\ Len(calls) >= 2
    /\ pc \in {"write", "done"}
    /\ (pc = "write" \/ Len(calls) = 3)

\* C2: whenever Yw7Target.merge or JsonTimeline2.merge returns an error
\* message, the target's graph (scenes with their flags, entities, chapters,
\* deletion marks, arc table) is what it was right after the target was read.
C2_FailedMergeLeavesTargetAsRead ==
    MergeFailed => target = Val(afterRead)

\* a timeline-to-novel run on a timeline in which two events share a title
AmbiguousSourceRun ==
    /\ dir = "a2y"
    /\ FirstDuplicate(Titles(aeonFile.events)) # 0
    /\ pc \in {"read", "merge", "write", "done"}

\* C3: if two events of the source timeline share a title, JsonTimeline2.read
\* returns the ambiguous-title error naming the title, convert ends with it,
\* and neither target.merge nor target.write is called nor the novel changed.
C3_AmbiguousSourceEndsRun ==
    [][/\ (AmbiguousSourceRun /\ calls # <<>>)' =>
            /\ pc' = "done"
            /\ calls' = <<"source.read">>
            /\ message' = Err("Ambiguous Aeon event title",
                    aeonFile.events[FirstDuplicate(Titles(aeonFile.events))].title)
            /\ target' = NewYw7File
       /\ AmbiguousSourceRun => ywFile' = ywFile /\ aeonFile' = aeonFile]_vars

C3_Witness ==
    /\ dir = "a2y"
    /\ pc = "done"
    /\ calls = <<"source.read">>
    /\ message = Err("Ambiguous Aeon event title", "Storm")
    /\ ywFile.scenes # <<>>

\* the position of a scene: the chapter that lists it and its index there
Position(chapters, scId) ==
    UNION {{<<chapters[c].id, k>> :
                k \in {n \in DOMAIN chapters[c].srtScenes : chapters[c].srtScenes[n] = scId}} :
            c \in DOMAIN chapters}

\* a scene of the target as read that is of normal type and whose title no
\* scene of the source has
Orphaned(sc) ==
    /\ ~IsTrue(sc.isNotesScene)
    /\ ~InList(sc.title, Titles(source.scenes))

\* C4: after Yw7Target.merge every scene that was read is still in the
\* target; a scene of normal type whose title matches no source event has
\* isUnused = true and its title, content, description, notes, status and
\* chapter position unchanged.
C4_SoftDelete ==
    (dir = "a2y" /\ MergeSucceeded) =>
        \A i \in DOMAIN Val(afterRead).scenes :
            LET old == Val(afterRead).scenes[i] IN
            /\ HasKey(target.scenes, old.id)
            /\ Orphaned(old) =>
                LET new == Get(target.scenes, old.id) IN
                /\ new.isUnused = Some(TRUE)
                /\ new.title = old.title
                /\ new.sceneContent = old.sceneContent
                /\ new.desc = old.desc
                /\ new.sceneNotes = old.sceneNotes
                /\ new.status = old.status
                /\ Position(target.chapters, old.id)
                       = Position(Val(afterRead).chapters, old.id)

\* a scene that was in use when read has been marked unused by the merge
C4_Witness ==
    /\ dir = "a2y"
    /\ MergeSucceeded
    /\ \E i \in DOMAIN Val(afterRead).scenes :
          LET old == Val(afterRead).scenes[i] IN
          /\ Orphaned(old)
          /\ old.isUnused = Some(FALSE)
          /\ Get(target.scenes, old.id).isUnused = Some(TRUE)

\* Scenario B: source scenes that are narrative, carry a date, a duration and
\* a character, and whose title no scene of the target as read has
ScenarioB ==
    {i \in DOMAIN source.scenes :
        LET sc == source.scenes[i] IN
        /\ sc.isNotesScene = Some(FALSE)
        /\ sc.date # None /\ sc.time # None
        /\ sc.lastsDays # None /\ sc.lastsHours # None /\ sc.lastsMinutes # None
        /\ Truthy(sc.characters)
        /\ ~InList(sc.title, Titles(Val(afterRead).scenes))}

\* the scenes Scenario B asks for src: titled like it, in use, of normal type,
\* with its date and duration, the bound character, in the 'New scenes' chapter
CreatedFor(src) ==
    {j \in DOMAIN target.scenes :
        LET sc == target.scenes[j] IN
        /\ sc.title = src.title
        /\ sc.isUnused = Some(FALSE) /\ sc.isNotesScene = Some(FALSE)
        /\ sc.date = src.date /\ sc.time = src.time
        /\ sc.lastsDays = src.lastsDays /\ sc.lastsHours = src.lastsHours
        /\ sc.lastsMinutes = src.lastsMinutes
        /\ Truthy(sc.characters)
        /\ \A k \in DOMAIN Val(src.characters) :
              \E c \in DOMAIN target.characters :
                 /\ target.characters[c].title
                        = Get(source.characters, Val(src.characters)[k]).title
                 /\ InList(target.characters[c].id, Val(sc.characters))
        /\ \E c \in DOMAIN target.chapters :
              /\ target.chapters[c].title = "New scenes"
              /\ InList(sc.id, target.chapters[c].srtScenes)}

\* target.merge was called by a timeline-to-novel run whose checks for
\* ambiguous titles all passed
MergeRan ==
    /\ dir = "a2y"
    /\ Len(calls) >= 2
    /\ ~MergeFailed

\* C5: when a narrative source scene with a date, a duration and a character
\* has no title match in the target, Yw7Target.merge completes and the target
\* has exactly one new scene for it (Scenario B).
C5_CreateOnMiss ==
    MergeRan =>
        \A i \in ScenarioB :
            /\ pc # "crashed"
            /\ Cardinality(CreatedFor(source.scenes[i])) = 1
            /\ Cardinality({j \in DOMAIN target.scenes :
                    target.scenes[j].title = source.scenes[i].title}) = 1

\* a run of the history that went through read, merge and write without error
Completed(h) ==
    /\ ~h.error
    /\ ~h.crashed
    /\ h.calls = Pipeline

\* the document a run writes: the novel or the timeline
TargetFile(h) == IF h.dir = "a2y" THEN h.yw ELSE h.aeon

\* two runs in succession, in the same direction, with no edit in between
Successive(i) ==
    /\ i + 1 \in DOMAIN hist
    /\ hist[i].dir = hist[i + 1].dir
    /\ hist[i].edits = hist[i + 1].edits
    /\ Completed(hist[i])
    /\ Completed(hist[i + 1])

\* C6: performing the read-merge-write cycle twice in succession with an
\* unchanged source leaves the target after the second cycle identical to
\* the target after the first, in either direction.
C6_Idempotence ==
    \A i \in DOMAIN hist :
        Successive(i) => TargetFile(hist[i + 1]) = TargetFile(hist[i])

\* the scenes of a novel file that are unused, of normal type, and whose
\* title no event of the timeline has
SoftDeleted(h) ==
    {k \in DOMAIN h.yw.scenes :
        /\ h.yw.scenes[k].unused
        /\ h.yw.scenes[k].sceneType # Some(1)
        /\ ~InList(h.yw.scenes[k].title, Titles(h.aeon.events))}

\* C8: once a scene was marked unused because its title was missing from the
\* source, it stays unused in every later timeline-to-novel sync whose source
\* still lacks that title.
C8_SoftDeleteMonotonic ==
    /\ \A i, j \in DOMAIN hist :
          (i < j /\ hist[i].dir = "a2y" /\ hist[j].dir = "a2y"
                 /\ Completed(hist[i]) /\ Completed(hist[j])) =>
             \A k \in SoftDeleted(hist[i]) :
                ~InList(hist[i].yw.scenes[k].title, Titles(hist[j].aeon.events)) =>
                   \E n \in SoftDeleted(hist[j]) :
                      hist[j].yw.scenes[n].id = hist[i].yw.scenes[k].id
    /\ (dir = "a2y" /\ MergeSucceeded) =>
          \A i \in DOMAIN Val(afterRead).scenes :
             LET old == Val(afterRead).scenes[i] IN
             (Orphaned(old) /\ IsTrue(old.isUnused)) =>
                 Get(target.scenes, old.id).isUnused = Some(TRUE)

\* a scene marked unused by the first sync is still unused after the second
C8_Witness ==
    /\ Len(hist) = 2
    /\ hist[1].dir = "a2y" /\ hist[2].dir = "a2y"
    /\ Completed(hist[1]) /\ Completed(hist[2])
    /\ \E k \in SoftDeleted(hist[1]) :
          /\ \E m \in DOMAIN ywFile.scenes :
                /\ ywFile.scenes[m].id = hist[1].yw.scenes[k].id
                /\ ywFile.scenes[m].unused
          /\ ~InList(hist[1].yw.scenes[k].title, Titles(hist[2].aeon.events))
          /\ \E e \in DOMAIN hist[2].aeon.events :
                ~InList(hist[2].aeon.events[e].title, Titles(hist[1].aeon.events))

\* the scenes of the target as read that are soft-deleted and whose title a
\* narrative event of the source has
Reappeared ==
    {i \in DOMAIN Val(afterRead).scenes :
        LET old == Val(afterRead).scenes[i] IN
        /\ IsTrue(old.isUnused)
        /\ ~IsTrue(old.isNotesScene)
        /\ \E k \in DOMAIN source.scenes :
              /\ source.scenes[k].title = old.title
              /\ source.scenes[k].isNotesScene = Some(FALSE)}

\* C9: when a source scene reappears under the title of a soft-deleted
\* target scene, the sync makes that same scene active again and creates no
\* second scene with that title.
C9_Revival ==
    (dir = "a2y" /\ MergeSucceeded) =>
        \A i \in Reappeared :
            LET old == Val(afterRead).scenes[i] IN
            /\ Get(target.scenes, old.id).isUnused = Some(FALSE)
            /\ Cardinality({j \in DOMAIN target.scenes :
                    target.scenes[j].title = old.title}) = 1

\* the step in which target.write of a run whose source has no scene at all
\* returns without an error
EmptySourceWritten ==
    /\ pc = "write"
    /\ source.scenes = <<>>
    /\ pc' = "done"
    /\ ~message'.error

\* a novel file in which every scene that is not of Notes type is unused
SoftDeleteAll(xml) ==
    [xml EXCEPT !.scenes =
        [i \in DOMAIN @ |-> IF @[i].sceneType = Some(1) THEN @[i]
                            ELSE [@[i] EXCEPT !.unused = TRUE]]]

\* the events of a timeline file that are not assigned to the Narrative arc
Background(doc) ==
    SelectSeq(doc.events, LAMBDA e : ~IsNarrativeEvent(e, NarrativeGuid(doc.entities)))

\* what the claim compares of an event: its identity, title and relationships
Outline(events) ==
    [i \in DOMAIN events |->
        [guid |-> events[i].guid, title |-> events[i].title,
         relationships |-> events[i].relationships]]

TimelineScenes ==
    IF dir = "a2y" /\ pc \in {"merge", "write", "done", "crashed"} THEN source.scenes
    ELSE IF dir = "y2a" /\ pc = "write" THEN Val(afterRead).scenes
    ELSE <<>>

\* the event's date lies in the year 100 or later
InRange(evt) ==
    /\ evt.rangeValue # None
    /\ YearOf(Val(evt.rangeValue).timestamp.d) >= 100

\* the date, time and duration fields of a scene that are set
DateFields(sc) ==
    {f \in {"date", "time", "lastsDays", "lastsHours", "lastsMinutes"} : sc[f] # None}

\* C10: a scene built by JsonTimeline2.read has date, time and the three
\* duration fields set if the event's timestamp is at or after 0100-01-01
\* 00:00, and has all five unset if it is below.
C10_DateThreshold ==
    \A i \in DOMAIN TimelineScenes :
        LET sc == TimelineScenes[i]
            evt == aeonFile.events[sc.id]
        IN IF InRange(evt)
           THEN /\ DateFields(sc) = {"date", "time", "lastsDays", "lastsHours", "lastsMinutes"}
                /\ Ts(Val(sc.date), Val(sc.time)) = Val(evt.rangeValue).timestamp
           ELSE DateFields(sc) = {}

\* one read has built a scene from an event at the limit itself and a scene
\* from an event one second below it
C10_Witness ==
    /\ dir = "a2y"
    /\ pc = "merge"
    /\ \E i, j \in DOMAIN source.scenes :
          /\ Val(aeonFile.events[i].rangeValue).timestamp = DATE_LIMIT
          /\ source.scenes[i].date = Some(DateLimitDays)
          /\ source.scenes[i].time = Some(0)
          /\ Val(aeonFile.events[j].rangeValue).timestamp = Ts(DateLimitDays - 1, 86399)
          /\ YearOf(DateLimitDays - 1) = 99
          /\ source.scenes[j].date = None

\* the pairs <<i, k>> of a scene i of the novel as read and a scene k of the
\* timeline that Yw7Target.merge updates it from: the titles are equal, the
\* novel's scene is not an unused scene of normal type, and the timeline's
\* scene is not skipped as a background event
TitleMatched ==
    {p \in (DOMAIN Val(afterRead).scenes) \X (DOMAIN source.scenes) :
        LET old == Val(afterRead).scenes[p[1]]
            src == source.scenes[p[2]]
        IN /\ src.title = old.title
           /\ ~(IsTrue(old.isUnused) /\ ~IsTrue(old.isNotesScene))
           /\ ~(IsTrue(src.isNotesScene) /\ scenes_only)}

\* the start and the duration of a scene
Schedule(sc) ==
    [date |-> sc.date, time |-> sc.time, lastsDays |-> sc.lastsDays,
     lastsHours |-> sc.lastsHours, lastsMinutes |-> sc.lastsMinutes]

\* the start and the duration a SCENE element of the file holds
XmlSchedule(x) ==
    [date |-> IF x.specificDateTime = None THEN None
              ELSE Some(Val(x.specificDateTime).date),
     time |-> IF x.specificDateTime = None THEN None
              ELSE Some(Val(x.specificDateTime).time),
     lastsDays |-> x.lastsDays, lastsHours |-> x.lastsHours,
     lastsMinutes |-> x.lastsMinutes]

\* C11 as stated: after Yw7Target.merge a title-matched scene of the target
\* has the source's date, time and duration if the source scene has a date,
\* and its own previous date, time and duration if the source scene has none.
C11_DateMergePolicy ==
    (dir = "a2y" /\ MergeSucceeded) =>
        \A p \in TitleMatched :
            LET old == Val(afterRead).scenes[p[1]]
                src == source.scenes[p[2]]
                new == Get(target.scenes, old.id)
            IN Schedule(new) = IF src.date # None THEN Schedule(src) ELSE Schedule(old)

\* the step in which Yw7File.write of a timeline-to-novel run writes the file
NovelWritten ==
    /\ dir = "a2y"
    /\ pc = "write"
    /\ pc' = "done"
    /\ ~message'.error

\* C11, amended: Yw7Target.merge gives a title-matched scene the source's
\* date, time and duration whatever they are, None included; Yw7File.write
\* then puts the source's start and duration into the SCENE element if the
\* source scene has a date and leaves the element's start and duration as
\* they are in the file if it has none.
C11_DateMergeAndWrite ==
    [][NovelWritten =>
          \A p \in TitleMatched :
              LET old == Val(afterRead).scenes[p[1]]
                  src == source.scenes[p[2]]
                  new == Get(target.scenes, old.id)
              IN /\ Schedule(new) = Schedule(src)
                 /\ XmlSchedule(Get(ywFile'.scenes, old.id))
                        = IF src.date # None THEN Schedule(src)
                          ELSE XmlSchedule(Get(ywFile.scenes, old.id))]_vars

\* a run has written the novel after merging an event without a date into a
\* dated scene and a dated event into a scene without a date
C11_Witness ==
    /\ dir = "a2y"
    /\ pc = "done"
    /\ calls = Pipeline
    /\ ~message.error
    /\ \E p, q \in TitleMatched :
          /\ source.scenes[p[2]].date = None
          /\ Val(afterRead).scenes[p[1]].date # None
          /\ Get(target.scenes, Val(afterRead).scenes[p[1]].id).date = None
          /\ Get(ywFile.scenes, Val(afterRead).scenes[p[1]].id).specificDateTime # None
          /\ source.scenes[q[2]].date # None
          /\ Val(afterRead).scenes[q[1]].date = None
          /\ Get(ywFile.scenes, Val(afterRead).scenes[q[1]].id).specificDateTime
                = Some([date |-> Val(source.scenes[q[2]].date),
                        time |-> Val(source.scenes[q[2]].time)])

\* the pairs <<i, k>> of an event scene i of the timeline as read and a scene
\* k of the novel that JsonTimeline2.merge updates it from: the titles are
\* equal and the novel's scene is neither an unused scene of normal type nor
\* skipped as a Notes scene
EventMatched ==
    {p \in (DOMAIN Val(afterRead).scenes) \X (DOMAIN source.scenes) :
        LET old == Val(afterRead).scenes[p[1]]
            src == source.scenes[p[2]]
        IN /\ src.title = old.title
           /\ ~(IsTrue(src.isUnused) /\ ~IsTrue(src.isNotesScene))
           /\ ~(IsTrue(src.isNotesScene) /\ scenes_only)}

\* the pairs of a target scene as read and the source scene it is updated from
Matched == IF dir = "a2y" THEN TitleMatched ELSE EventMatched

\* the value of the source if it is there and not empty, else the target's
IfPresent(srcValue, tgtValue) == IF Truthy(srcValue) THEN srcValue ELSE tgtValue

\* the step in which target.write of a run writes the target file
TargetWritten ==
    /\ pc = "write"
    /\ pc' = "done"
    /\ ~message'.error

\* tags of an event as a value that may be None
EventTags(evt) == IF evt.tags = <<>> THEN None ELSE Some(evt.tags)

\* C12: in both directions a title-matched target scene has after the merge
\* the source's tags if the source has any and else its own, and likewise the
\* description; the written SCENE element or event holds the same.
C12_TagsAndDescIfPresent ==
    [][TargetWritten =>
          \A p \in Matched :
              LET old == Val(afterRead).scenes[p[1]]
                  src == source.scenes[p[2]]
                  new == Get(target.scenes, old.id)
              IN /\ new.tags = IfPresent(src.tags, old.tags)
                 /\ new.desc = IfPresent(src.desc, old.desc)
                 /\ dir = "a2y" =>
                       /\ Get(ywFile'.scenes, old.id).tags
                             = IfPresent(src.tags, Get(ywFile.scenes, old.id).tags)
                       /\ Get(ywFile'.scenes, old.id).desc
                             = IfPresent(src.desc, Get(ywFile.scenes, old.id).desc)
                 /\ dir = "y2a" =>
                       \A k \in DOMAIN aeonFile'.events :
                          aeonFile'.events[k].guid = aeonFile.events[old.id].guid =>
                             /\ EventTags(aeonFile'.events[k])
                                   = IfPresent(src.tags, EventTags(aeonFile.events[old.id]))
                             /\ IfPresent(aeonFile'.events[k].desc, None)
                                   = IfPresent(src.desc,
                                         IfPresent(aeonFile.events[old.id].desc, None))]_vars

\* the file of a finished run has a scene and an event of one title
Paired(h, i, k) ==
    /\ i \in DOMAIN h.yw.scenes
    /\ k \in DOMAIN h.aeon.events
    /\ h.yw.scenes[i].title = h.aeon.events[k].title

\* a timeline-to-novel run has written a novel in which the scene Storm kept
\* its tags and description because the event had none and the scene Arrival
\* took those of its event; the novel-to-timeline run after it has put tags
\* and description of a scene into the event, which had none
C12_Witness ==
    /\ Len(hist) = 1
    /\ hist[1].dir = "a2y"
    /\ Completed(hist[1])
    /\ \E i, j \in DOMAIN hist[1].yw.scenes, k, n \in DOMAIN hist[1].aeon.events :
          /\ Paired(hist[1], i, k)
          /\ hist[1].aeon.events[k].desc = None
          /\ hist[1].aeon.events[k].tags = <<>>
          /\ hist[1].yw.scenes[i].desc = Some(<<"d0">>)
          /\ hist[1].yw.scenes[i].tags = Some(<<"t0">>)
          /\ Paired(hist[1], j, n)
          /\ hist[1].aeon.events[n].desc = Some(<<"d2">>)
          /\ hist[1].yw.scenes[j].desc = Some(<<"d2">>)
          /\ hist[1].yw.scenes[j].tags = Some(<<"t2">>)
    /\ dir = "y2a"
    /\ pc = "done"
    /\ calls = Pipeline
    /\ ~message.error
    /\ \E p \in Matched :
          LET old == Val(afterRead).scenes[p[1]]
              src == source.scenes[p[2]]
          IN /\ Truthy(src.desc) /\ Truthy(src.tags)
             /\ ~Truthy(old.desc) /\ ~Truthy(old.tags)
             /\ \E k \in DOMAIN aeonFile.events :
                   /\ aeonFile.events[k].title = src.title
                   /\ aeonFile.events[k].desc = src.desc
                   /\ aeonFile.events[k].tags = Val(src.tags)

\* text starts with the text prefix
StartsWith(text, prefix) ==
    Len(text) >= Len(prefix) /\ SubSeq(text, 1, Len(prefix)) = prefix

\* C13: after Yw7Target.merge the notes of a title-matched target scene
\* start with its previous notes and contain the notes of the source scene;
\* they are the previous notes if those contain the source's already, and
\* longer if not.
C13_NotesAdditive ==
    (dir = "a2y" /\ MergeSucceeded) =>
        \A p \in TitleMatched :
            LET old == Val(afterRead).scenes[p[1]].sceneNotes
                src == source.scenes[p[2]].sceneNotes
                new == Get(target.scenes, Val(afterRead).scenes[p[1]].id).sceneNotes
            IN /\ src = None => new = old
               /\ old # None => new # None /\ StartsWith(Val(new), Val(old))
               /\ src # None => new # None /\ IsSubstring(Val(src), Val(new))
               /\ (old # None /\ src # None) =>
                     IF IsSubstring(Val(src), Val(old)) THEN new = old
                     ELSE Len(Val(new)) > Len(Val(old))

\* the first run has appended the notes of an event to the notes of its
\* scene, and the merge of the second run has left them as they are
C13_Witness ==
    /\ dir = "a2y"
    /\ MergeSucceeded
    /\ Len(hist) = 1
    /\ hist[1].dir = "a2y"
    /\ Completed(hist[1])
    /\ \E p \in TitleMatched :
          LET old == Val(afterRead).scenes[p[1]]
              src == source.scenes[p[2]]
          IN /\ src.sceneNotes = Some(<<"n3">>)
             /\ old.sceneNotes = Some(<<"n0", "\n", "n3">>)
             /\ Get(target.scenes, old.id).sceneNotes = old.sceneNotes

\* the ids of a reference list that may be None
Referenced(lst) == IF lst = None THEN {} ELSE {Val(lst)[i] : i \in DOMAIN Val(lst)}

\* the source characters a title-matched scene refers to that the target has
\* no character for: none of that title in the target as read, and none
\* created, since no scene of normal type refers to them
DanglingCharacters ==
    {c \in DOMAIN source.characters :
        /\ ~InList(source.characters[c].title, Titles(Val(afterRead).characters))
        /\ ~InList(source.characters[c].id, Linked(source.scenes, "characters"))
        /\ \E p \in TitleMatched :
              /\ source.characters[c].id \in Referenced(source.scenes[p[2]].characters)
              /\ Val(afterRead).scenes[p[1]].characters # None}

\* every reference of a scene of the target is a key of the target's
\* dictionary of characters, locations or items
ReferencesResolve ==
    \A i \in DOMAIN target.scenes :
        /\ \A id \in Referenced(target.scenes[i].characters) : HasKey(target.characters, id)
        /\ \A id \in Referenced(target.scenes[i].locations) : HasKey(target.locations, id)
        /\ \A id \in Referenced(target.scenes[i].items) : HasKey(target.items, id)

\* C14: a reference of a source scene to a character that is neither matched
\* by title nor created in the target is left out of the target scene's list
\* and the merge neither raises nor fails; after a successful merge every
\* reference of a target scene is a key of the target's entity dictionary.
C14_DanglingDropped ==
    /\ (dir = "a2y" /\ Len(calls) >= 2 /\ DanglingCharacters # {}) =>
          /\ pc # "crashed"
          /\ ~MergeFailed
    /\ MergeSucceeded => ReferencesResolve

\* the titles that two scenes of the novel as read share, neither of them
\* flagged unused in the file
AmbiguousActiveTitles ==
    {Val(afterRead).scenes[i].title : i \in
        {i \in DOMAIN Val(afterRead).scenes :
            /\ ~IsTrue(Val(afterRead).scenes[i].isUnused)
            /\ \E j \in DOMAIN Val(afterRead).scenes :
                  /\ j # i
                  /\ Val(afterRead).scenes[j].title = Val(afterRead).scenes[i].title
                  /\ ~IsTrue(Val(afterRead).scenes[j].isUnused)}}

\* C15: if the novel as read has two scenes of one title that are not flagged
\* unused, Yw7Target.merge returns the error 'Ambiguous yWriter scene title'
\* and target.write is not called, whether the source has the title or not.
C15_TargetAmbiguityAborts ==
    (dir = "a2y" /\ Len(calls) >= 2 /\ AmbiguousActiveTitles # {}) =>
        /\ calls = <<"source.read", "target.merge">>
        /\ pc = "done"
        /\ \E t \in AmbiguousActiveTitles :
              message = Err("Ambiguous yWriter scene title", t)

\* the titles of the scenes of the source that a chapter other than the
\* trash bin lists
TitlesOutsideTrash ==
    {source.scenes[i].title : i \in
        {i \in DOMAIN source.scenes :
            \E c \in DOMAIN source.chapters :
                /\ ~IsTrue(source.chapters[c].isTrash)
                /\ InList(source.scenes[i].id, source.chapters[c].srtScenes)}}

\* the guids of the events of a timeline file
Guids(doc) == {doc.events[i].guid : i \in DOMAIN doc.events}

\* the guids of the events of the file that are assigned to the Narrative arc
\* and have the title of no scene of the source outside the trash bin
Deletable(doc) ==
    {doc.events[i].guid : i \in
        {i \in DOMAIN doc.events :
            /\ IsNarrativeEvent(doc.events[i], NarrativeGuid(doc.entities))
            /\ doc.events[i].title \notin TitlesOutsideTrash}}

\* C16: the events a novel-to-timeline run removes from the timeline are
\* exactly the events of the Narrative arc whose title no scene in a chapter
\* other than the trash bin has; the events that remain keep their order.
C16_EventDeletion ==
    [][(dir = "y2a" /\ TargetWritten) =>
          /\ Guids(aeonFile) \ Guids(aeonFile') = Deletable(aeonFile)
          /\ \A i, j \in DOMAIN aeonFile.events :
                (i < j /\ aeonFile.events[i].guid \notin Deletable(aeonFile)
                       /\ aeonFile.events[j].guid \notin Deletable(aeonFile)) =>
                   \E k, n \in DOMAIN aeonFile'.events :
                      /\ k < n
                      /\ aeonFile'.events[k].guid = aeonFile.events[i].guid
                      /\ aeonFile'.events[n].guid = aeonFile.events[j].guid]_vars

\* a run has removed a narrative event whose title only a scene in the trash
\* bin has, and has kept the narrative event of a scene in a chapter
C16_Witness ==
    /\ dir = "y2a"
    /\ pc = "done"
    /\ calls = Pipeline
    /\ ~message.error
    /\ Len(Val(afterRead).scenes) = 2
    /\ \E i, j \in DOMAIN Val(afterRead).scenes :
          /\ Val(afterRead).scenes[i].isNotesScene = Some(FALSE)
          /\ Val(afterRead).scenes[i].title \notin TitlesOutsideTrash
          /\ InList(Val(afterRead).scenes[i].title, Titles(source.scenes))
          /\ ~InList(Val(afterRead).scenes[i].title, Titles(aeonFile.events))
          /\ Val(afterRead).scenes[j].isNotesScene = Some(FALSE)
          /\ Val(afterRead).scenes[j].title \in TitlesOutsideTrash
          /\ InList(Val(afterRead).scenes[j].title, Titles(aeonFile.events))

EntityKinds == {"characters", "locations", "items"}

\* the ids of the entities of a dictionary that have the title
IdsOf(elements, title) ==
    {elements[i].id : i \in {i \in DOMAIN elements : elements[i].title = title}}

\* a scene of the source that is built from a narrative event refers to the
\* entity id of the kind
AssignedToNarrative(kind, id) ==
    \E i \in DOMAIN source.scenes :
        /\ ~IsTrue(source.scenes[i].isNotesScene)
        /\ id \in Referenced(source.scenes[i][kind])

\* Yw7Target.merge of the current run has read the target and found no
\* ambiguous title; it has returned or raised an exception
MergePassedChecks ==
    /\ dir = "a2y"
    /\ pc \in {"write", "done", "crashed"}
    /\ Len(calls) >= 2
    /\ ~MergeFailed

\* C17: when Yw7Target.merge has passed its checks, every entity of the
\* target as read is still there under its id; a source entity whose title
\* an entity of the target has is not added again; a source entity whose
\* title none has is in the target iff a narrative event is assigned to it,
\* once, under an id the target as read did not have.
C17_EntityCreation ==
    MergePassedChecks =>
        \A kind \in EntityKinds :
            LET old == Val(afterRead)[kind]
                new == target[kind]
            IN /\ \A i \in DOMAIN old :
                     HasKey(new, old[i].id) /\ Get(new, old[i].id) = old[i]
               /\ \A c \in DOMAIN source[kind] :
                     LET e == source[kind][c] IN
                     IF IdsOf(old, e.title) # {}
                     THEN IdsOf(new, e.title) = IdsOf(old, e.title)
                     ELSE IF AssignedToNarrative(kind, e.id)
                     THEN /\ Cardinality(IdsOf(new, e.title)) = 1
                          /\ ~\E i \in DOMAIN old : old[i].id \in IdsOf(new, e.title)
                     ELSE IdsOf(new, e.title) = {}

\* a merge has created the character Alice beside the character Bob of the
\* novel, and has not created the location no narrative event is at
C17_Witness ==
    /\ dir = "a2y"
    /\ MergeSucceeded
    /\ Titles(Val(afterRead).characters) = <<"Bob">>
    /\ Titles(target.characters) = <<"Bob", "Alice">>
    /\ Keys(target.characters) = <<1, 2>>
    /\ Titles(source.locations) = <<"Harbour">>
    /\ target.locations = <<>>
    /\ \E i \in DOMAIN target.scenes : target.scenes[i].characters = Some(<<2>>)

----------------------------------------------------------------------------
(* C18: save_timeline and a crash or failure between its steps *)

\* the previous document of the timeline is whole at its path or in the backup
PreviousTimelineKept ==
    \/ aeonPath = "file"
    \/ aeonBak = BackedUp(aeonFile, "file")

\* C18: at every point of save_timeline, a crash or failure between its steps
\* included, the previous document is whole at the path of the timeline or
\* in the .bak file, and the path of the timeline never holds a half-written
\* file; when save_timeline has returned an error, the path holds the
\* previous document again.
C18_TimelineCrashSafe ==
    /\ PreviousTimelineKept
    /\ aeonPath # "partial"
    /\ (dir = "y2a" /\ pc = "done" /\ message.error) => aeonPath = "file"

----------------------------------------------------------------------------
(* C19: Yw7File.write and a failure after the backup *)

\* Yw7File.write returns an error message after it has moved the file to
\* the backup
NovelWriteFails ==
    /\ dir = "a2y"
    /\ pc = "write"
    /\ saving \in {"backedUp", "written"}
    /\ pc' = "done"
    /\ message'.error

\* C19: when Yw7File.write fails after it has moved the existing file to the
\* backup, while the element tree is written or while the written file is
\* post-processed, the .yw7 path holds the document of before the run when
\* write returns its error message.
C19_NovelWriteRecoverable ==
    [][NovelWriteFails =>
          /\ ywPath' = Val(ywBak).form
          /\ ywFile' = Val(ywBak).doc]_vars

----------------------------------------------------------------------------
(* C20: the lock file of yWriter *)

\* the step calls Yw7File.read: source.read() of a novel, or the self.read()
\* that Yw7Target.merge starts with
YwReadCalled ==
    /\ (dir = "y2a" /\ pc = "read") \/ (dir = "a2y" /\ pc = "merge")
    /\ calls' # calls

\* the step calls Yw7File.write
YwWriteCalled ==
    /\ dir = "a2y"
    /\ pc = "write"
    /\ saving = "no"
    /\ calls' # calls

\* the Yw7File instance the calls of the run work on
YwInstance == IF dir = "y2a" THEN source ELSE target

\* C20: when the lock file exists at a call of Yw7File.read or Yw7File.write,
\* the call returns the error message, and the .yw7 file, its .bak and the
\* instance in memory are as before; a run on a locked novel does not write
\* it.
C20_LockSentinel ==
    [][(ywLock /\ (YwReadCalled \/ YwWriteCalled)) =>
          /\ message' = YwLockedMessage
          /\ pc' = "done"
          /\ ywFile' = ywFile
          /\ ywPath' = ywPath
          /\ ywBak' = ywBak
          /\ YwInstance' = YwInstance]_vars

\* a timeline-to-novel run has read and merged the novel, yWriter was opened
\* before the write, and write has returned the error message with the file
\* as it was and no backup made
C20_Witness ==
    /\ dir = "a2y"
    /\ pc = "done"
    /\ calls = Pipeline
    /\ ywLock
    /\ message = YwLockedMessage
    /\ ywPath = "file"
    /\ ywBak = None
    /\ Some(ywFile) = Val(afterRead).tree
    /\ BuildElementTree(target) # ywFile

----------------------------------------------------------------------------
(* C21: the user declines to overwrite the target *)

Canceled == Err("Action canceled by user", "")

\* the files of the project and their backups
Files == <<aeonFile, aeonPath, aeonBak, ywFile, ywPath, ywBak>>

\* C21: when the target file exists and the user answers no, convert returns
\* the error message 'Action canceled by user' without a call of source.read,
\* target.merge or target.write, and the files are left as they are.
C21_DeclinedOverwrite ==
    [][/\ (runs' # runs /\ message' = Canceled) =>
            /\ pc' = "done"
            /\ calls' = <<>>
            /\ Files' = Files
       /\ (pc # "idle" /\ message = Canceled) =>
            /\ pc = "done"
            /\ pc' \in {"done", "idle"}
            /\ calls' = <<>>
            /\ Files' = Files]_vars

\* the user has declined the second run, after a first run that wrote the
\* target
C21_Witness ==
    /\ pc = "done"
    /\ message = Canceled
    /\ calls = <<>>
    /\ runs = 2
    /\ ~hist[1].error
    /\ hist[1].calls = Pipeline

----------------------------------------------------------------------------
(* C22: the template after JsonTimeline2.read *)

\* JsonTimeline2.read has returned without an error
TimelineRead == dir = "a2y" /\ pc = "merge"

\* C22: after JsonTimeline2.read has returned success, the four types, the
\* Arc and Storyline roles, the character, location and item roles and the
\* description and notes properties all have a guid that is not None and is
\* in the template, whichever of them the template held before the read.
C22_TemplateRepaired ==
    TimelineRead =>
        \A n \in FullTemplate :
            /\ source.tplGuids[n] # None
            /\ Val(source.tplGuids[n]) \in Val(source.jsonData).template

----------------------------------------------------------------------------
(* C23: the phase of the moon on two days of January 2024 *)

\* get_moon_phase has returned for the date
MoonPhaseReturned(year, month, day) ==
    /\ fnArg.fn = "get_moon_phase"
    /\ fnArg.dateStr = DateStr(year, month, day)
    /\ fnRet # None

\* C23: get_moon_phase("2024-01-11") returns 0, and
\* get_moon_phase("2024-01-25") returns a value in 13..15.
C23_MoonPhaseScenario ==
    /\ MoonPhaseReturned(2024, 1, 11) => Val(fnRet) = Some(0)
    /\ MoonPhaseReturned(2024, 1, 25) =>
          /\ Val(fnRet) # None
          /\ Val(Val(fnRet)) \in 13..15

----------------------------------------------------------------------------
(* C24: the format of the identifiers *)

\* C24: get_uid returns five groups of exactly 8, 4, 4, 4 and 12 characters
\* out of 0-9 and A-F: get_sub_guid(key, size) yields exactly size characters
\* for every key it is called with.
C24_IdentifierFormat ==
    (fnArg.fn = "get_uid" /\ fnRet # None) =>
        \A i \in 1..5 :
            /\ Len(Val(fnRet)[i]) = sizes[i]
            /\ \A k \in DOMAIN Val(fnRet)[i] :
                  \E c \in DOMAIN guidChars : guidChars[c] = Val(fnRet)[i][k]

----------------------------------------------------------------------------
(* C25: newFile after the calls of the converter *)

\* a call of the converter has returned and none is under way
CallReturned == pc = "idle" /\ runs > 0

\* C25: after any sequence of export_from_yw, import_to_yw and create_yw7
\* calls on one converter, newFile is the path of the target when the message
\* the last call has passed to the ui is no error message, and None when it
\* is one, also when create_yw7 has refused because the target exists.
C25_SuccessIndicator ==
    CallReturned => newFile = (IF message.error THEN None ELSE Some(dir))

----------------------------------------------------------------------------
(* C26: the timestamps of the events whose scenes have no date *)

\* the step in which a novel-to-timeline run writes the timeline
TimelineWritten == dir = "y2a" /\ TargetWritten

\* the events of the target after the merge; event i belongs to scene i
MergedEvents == Val(target.jsonData).events

\* event i is not among the events write deletes
Kept(i) == ~InList(i - 1, target.trashEvents)

\* the events write recalculates whose scene has no date, and which it keeps
UndatedEvents ==
    {i \in DOMAIN MergedEvents :
        /\ HasKey(target.scenes, i)
        /\ ~IsSet(Get(target.scenes, i).date)
        /\ MergedEvents[i].rangeValue # None
        /\ TsLeq(DATE_LIMIT, Val(MergedEvents[i].rangeValue).timestamp)
        /\ Kept(i)}

\* where the event i of the target is in the list written to the file
WrittenAt(i) == Cardinality({j \in 1..i : Kept(j)})

\* the titles of the scenes of the source in the order of its chapters
ReadingOrder ==
    LET ids == ScenesOfAllChapters(source.chapters)
    IN [k \in DOMAIN ids |-> Get(source.scenes, ids[k]).title]

\* the first place of the title in the reading order, 0 if it is not there
PlaceOf(title) ==
    IF \E k \in DOMAIN ReadingOrder : ReadingOrder[k] = title
    THEN CHOOSE k \in DOMAIN ReadingOrder :
            /\ ReadingOrder[k] = title
            /\ \A j \in 1..(k - 1) : ReadingOrder[j] # title
    ELSE 0

\* the events the merge has created from scenes, behind those of the file
CreatedEvents == {i \in DOMAIN MergedEvents : i > Len(aeonFile.events)}

----------------------------------------------------------------------------
(* C27: events before the year 100 keep date and span *)

\* the events of the target stored before DATE_LIMIT, which write keeps
EarlyEvents ==
    {i \in DOMAIN MergedEvents :
        /\ MergedEvents[i].rangeValue # None
        /\ TsLess(Val(MergedEvents[i].rangeValue).timestamp, DATE_LIMIT)
        /\ Kept(i)}

\* the events of the target stored at or after DATE_LIMIT, which write keeps
LateEvents ==
    {i \in DOMAIN MergedEvents :
        /\ MergedEvents[i].rangeValue # None
        /\ TsLeq(DATE_LIMIT, Val(MergedEvents[i].rangeValue).timestamp)
        /\ Kept(i)}

\* C27: JsonTimeline2.write leaves timestamp and span of every event stored
\* before DATE_LIMIT as they are, whatever date and duration the scene of the
\* event has got from the source; the events stored at or after DATE_LIMIT
\* get the span of their scene and, where the scene has a date, its date and
\* time.
C27_EarlyEventsKeepTime ==
    [][TimelineWritten =>
          /\ \A i \in EarlyEvents :
                /\ aeonFile'.events[WrittenAt(i)].guid = MergedEvents[i].guid
                /\ aeonFile'.events[WrittenAt(i)].rangeValue = MergedEvents[i].rangeValue
          /\ \A i \in LateEvents :
                LET scene == Get(target.scenes, i)
                    rv == Val(aeonFile'.events[WrittenAt(i)].rangeValue)
                IN /\ rv.span = GetSpan(scene)
                   /\ IsSet(scene.date)
                      => rv.timestamp = Ts(Val(scene.date),
                                           IF IsSet(scene.time) THEN Val(scene.time) ELSE 0)]_vars

\* a novel-to-timeline run has written a timeline whose event "Storm" is
\* still at 0099-12-31 23:59:59 and lasts one day, while the scene "Storm" of
\* the project is on 1889-04-03 and its description has reached the event
C27_Witness ==
    /\ dir = "y2a"
    /\ pc = "done"
    /\ ~message.error
    /\ Len(aeonFile.events) >= 1
    /\ aeonFile.events[1].guid = <<"g", "e3">>
    /\ aeonFile.events[1].rangeValue
          = Some([timestamp |-> Ts(DateLimitDays - 1, 86399), span |-> [days |-> 1]])
    /\ aeonFile.events[1].tags = <<"t0">>
    /\ HasKey(target.scenes, 1)
    /\ Get(target.scenes, 1).date = Some(Ordinal(1889, 4, 3))

----------------------------------------------------------------------------
(* C28: the chapters of a timeline after read *)

\* the events of the timeline that was read as source
ReadSourceEvents == Val(source.jsonData).events

\* the scene ids of chapter c of the timeline that was read as source
ChapterScenes(c) == source.chapters[c].srtScenes

\* the scene ids ids are in non-decreasing order of their events' timestamps
Chronological(ids) ==
    \A a \in DOMAIN ids, b \in DOMAIN ids :
        a < b => TsLeq(EventTimestamp(ReadSourceEvents[ids[a]]),
                       EventTimestamp(ReadSourceEvents[ids[b]]))

\* C28: after JsonTimeline2.read there are exactly two chapters; every scene
\* is in exactly one of them, once; the first holds exactly the scenes whose
\* event has the Arc-role relationship to the Narrative arc and the second
\* all others; each list is in non-decreasing order of the timestamps, an
\* event without a date value counting as 0.
C28_ChapterLayout ==
    TimelineRead =>
        /\ Len(source.chapters) = 2
        /\ source.srtChapters = <<1, 2>>
        /\ Len(source.scenes) = Len(ReadSourceEvents)
        /\ Len(ChapterScenes(1)) + Len(ChapterScenes(2)) = Len(ReadSourceEvents)
        /\ \A i \in DOMAIN ReadSourceEvents :
              /\ InList(i, ChapterScenes(1))
                    <=> IsNarrativeEvent(ReadSourceEvents[i],
                                         NarrativeGuid(Val(source.jsonData).entities))
              /\ InList(i, ChapterScenes(2)) <=> ~InList(i, ChapterScenes(1))
        /\ Chronological(ChapterScenes(1))
        /\ Chronological(ChapterScenes(2))

\* a timeline has been read whose first event is later than its second, both
\* of the Narrative arc: the first chapter holds scene 2 before scene 1
C28_Witness ==
    /\ TimelineRead
    /\ Len(ReadSourceEvents) = 2
    /\ TsLess(EventTimestamp(ReadSourceEvents[2]), EventTimestamp(ReadSourceEvents[1]))
    /\ ChapterScenes(1) = <<2, 1>>
    /\ ChapterScenes(2) = <<>>

----------------------------------------------------------------------------
(* C29: the guids of the written timeline *)

\* no two members of the list have the same guid
DistinctGuids(lst) ==
    \A i \in DOMAIN lst, j \in DOMAIN lst : i # j => lst[i].guid # lst[j].guid

\* C29: in the timeline a novel-to-timeline run writes, the guids of the
\* entities are pairwise distinct and the guids of the events are pairwise
\* distinct, those given in the run to new characters, locations, items,
\* events and arcs included.
C29_GuidsUnique ==
    [][TimelineWritten =>
          /\ DistinctGuids(aeonFile'.entities)
          /\ DistinctGuids(aeonFile'.events)]_vars

----------------------------------------------------------------------------
(* C30: event i and scene i of a timeline object belong together *)

\* every event of the timeline object has, at its position, a scene of its
\* title, and there are no other scenes
Aligned(obj) ==
    LET events == Val(obj.jsonData).events
    IN /\ Len(obj.scenes) = Len(events)
       /\ \A i \in DOMAIN events :
             /\ HasKey(obj.scenes, i)
             /\ Get(obj.scenes, i).title = events[i].title

\* the state holds a timeline object whose read has returned success and
\* whose write has not yet ended
TimelineInUse ==
    \/ dir = "a2y" /\ pc \in {"merge", "write"}
    \/ dir = "y2a" /\ pc = "write"

\* the timeline object of the run
Timeline == IF dir = "a2y" THEN source ELSE target

\* C30: from the return of JsonTimeline2.read to the end of write, the scene
\* with id i exists for every event i and has its title, the events created
\* by the merge included; so write gives every kept event the data of its
\* own scene, and the events it leaves out are exactly those of the scenes
\* the merge has marked.
C30_EventSceneAlignment ==
    /\ [](TimelineInUse => Aligned(Timeline))
    /\ [][TimelineWritten =>
            /\ Len(aeonFile'.events) = Cardinality({i \in DOMAIN MergedEvents : Kept(i)})
            /\ \A i \in DOMAIN MergedEvents :
                  LET scene == Get(target.scenes, i) IN
                  IF Kept(i)
                  THEN LET evt == aeonFile'.events[WrittenAt(i)] IN
                       /\ evt.guid = MergedEvents[i].guid
                       /\ evt.title = scene.title
                       /\ Truthy(scene.tags) => evt.tags = Val(scene.tags)
                       /\ Truthy(scene.desc) => evt.desc = scene.desc
                  ELSE /\ InList(scene.id - 1, target.trashEvents)
                       /\ \A k \in DOMAIN aeonFile'.events :
                             aeonFile'.events[k].guid # MergedEvents[i].guid]_vars

\* a novel-to-timeline run has written a timeline of the one event created
\* from the scene "Storm", which the merge has appended as third event and
\* third scene; the two events that were there are deleted
C30_Witness ==
    /\ dir = "y2a"
    /\ pc = "done"
    /\ ~message.error
    /\ Len(Val(Val(afterRead).jsonData).events) = 2
    /\ target.trashEvents = <<0, 1>>
    /\ Len(MergedEvents) = 3
    /\ Get(target.scenes, 3).title = "Storm"
    /\ Len(aeonFile.events) = 1
    /\ aeonFile.events[1].guid = MergedEvents[3].guid
    /\ aeonFile.events[1].tags = <<"t0">>

====
